---- MODULE Spec2Model ----
(***************************************************************************)
(* A model of the client side of the cowsql wire protocol:                 *)
(*                                                                         *)
(*   - Protocol (internal/protocol/protocol.go): Call, More, Interrupt and *)
(*     Close on one connection, used by several goroutines, with the       *)
(*     stream, its deadline, the peer and the server's replies;            *)
(*   - Connector (internal/protocol/request.go): Connect, its retry loop,  *)
(*     connectAttemptAll and connectAttemptOne.                            *)
(*                                                                         *)
(* The two parts have their own variables and their own specifications:    *)
(* Spec (goroutines sharing a Protocol) and SpecSession (one goroutine)    *)
(* for the Protocol, SpecConnect and SpecConnectFair (with weak fairness   *)
(* of Connect's steps) for the Connector.                                  *)
(***************************************************************************)
EXTENDS Integers, Sequences, FiniteSets, TLC

(***************************************************************************)
(* Bounds of the model.                                                    *)
(***************************************************************************)
\* Goroutines sharing one Protocol.
NCallers == 2
\* Requests (Call, Interrupt) goroutines sharing a Protocol start in one run.
MaxOps == 2
\* Requests that a single goroutine using a Protocol starts in one run.
MaxSessionOps == 3
\* Responses the server may split one result set into.
MaxParts == 2
\* Nodes of the cluster.
NNodes == 3
\* The largest Config.RetryLimit.
MaxRetryLimit == 2
\* Runs of the action retry.Retry makes in one run of the model.
MaxAttempts == MaxRetryLimit + 2
\* Config.BackoffFactor and Config.BackoffCap, in units of time.
BackoffFactor == 1
BackoffCap == 3
\* Goroutines that use a node store, and the calls they make in all.
NStoreCallers == 2
MaxStoreOps == 3
\* Node lists given to Set: up to MaxListLen addresses out of 1..MaxAddr.
MaxListLen == 2
MaxAddr == 2
\* Errors wrapped around the error given to driverError.
MaxWraps == 1
\* Rows of a result set, parts of its response, and calls of
\* ColumnTypeDatabaseTypeName on it.
MaxRows == 3
MaxRowParts == 3
MaxTypeCalls == 3
\* Calls of Exec and Query on a connection.
MaxQueryOps == 2
\* Callers of App.Ready and rounds of the background tasks of App.run.
NReady == 2
MaxRunLoops == 3
\* Calls on a Message, and the bytes of its body.
MaxMsgOps == 4
MaxBody == 128
\* Responses received into one buffer.
MaxRecvs == 2
\* Reads of a part of the bytes asked, over the receives of a run.
MaxShortReads == 2
\* The fixed maximum of consecutive empty reads (a small value stands for it).
messageMaxConsecutiveEmptyReads == 3
\* The bits of a time.Duration.
DurationBits == 8
\* Config.BackoffFactor is at most this, and Config.BackoffCap is one of Caps.
MaxFactor == 20
Caps == {3, 50, 100, 127}
\* The backoff strategy is called with attempts up to this.
MaxBackoffAttempt == 9

(***************************************************************************)
(* The Protocol: state.                                                    *)
(***************************************************************************)
VARIABLES
    callers,       \* the goroutines that use the Protocol in this run
    budget,        \* the number of requests the run may start
    mu,            \* Protocol.mu: 0 when free, else the goroutine holding it
    netErr,        \* Protocol.netErr: "nil" or the cached *net.OpError
    connDeadline,  \* the stream's deadline: "none", "armed" or "expired"
    connClosed,    \* Protocol.Close was called on the stream
    peer,          \* the remote end: "up", "closed" (FIN) or "reset" (RST)
    wire,          \* every write made on the stream, in order
    inbox,         \* what the server sent and the client has not yet read
    srvPos,        \* how many entries of wire the server has consumed
    srvQuery,      \* the query the server is streaming: [id, left]
    pc,            \* per goroutine: where it is in its operation
    op,            \* per goroutine: "none", "Call", "More" or "Interrupt"
    req,           \* per goroutine: the request of the running operation
    err,           \* per goroutine: the error the operation is returning
    resp,          \* per goroutine: the response message being filled
    rows,          \* per goroutine: the driver Rows left open by a query
    drained,       \* an Interrupt of a query's own rows returned nil
    abandoned,     \* ids of responses a timed out Call left half read
    nextId,        \* the id of the next request
    expired        \* the goroutines waiting for p.mu whose deadline has passed

\* The fields of the Protocol, the stream, the server, the goroutines.
fvars == <<mu, netErr>>
dvars == <<connDeadline, connClosed, peer>>
svars == <<srvPos, srvQuery>>
gvars == <<pc, op, req, err, resp, rows>>
hvars == <<drained, abandoned, nextId, expired>>

pvars == <<callers, budget, fvars, dvars, wire, inbox, svars, gvars, hvars>>


(***************************************************************************)
(* The Connector: state.                                                   *)
(***************************************************************************)
VARIABLES
    store,       \* Connector.store: what NodeStore.Get returns, in its order
    retryLimit,  \* Config.RetryLimit
    ctxDone,     \* the context given to Connect is done
    cpc,         \* where Connect is
    attempt,     \* retry.Retry's attempt counter
    retryErr,    \* the last run of Retry's action returned "nil" or an "err"
    protocol,    \* Connect's variable "protocol": a connection or NilConn
    servers,     \* connectAttemptAll's sorted slice
    idx,         \* the position of its loop in servers
    version,     \* the version of the connectAttemptOne in progress
    hop,         \* which call of connectAttemptOne: "first", "legacy", "redirect"
    target,      \* the address given to connectAttemptOne
    one,         \* what connectAttemptOne returned
    cinfo,       \* the connection dialed by the last connectAttemptOne
    from,        \* the connection that answered with the redirect in progress
    open,        \* the dialed connections that are not closed
    probed,      \* the roles of the candidates dialed in this pass, in order
    passes,      \* the runs of connectAttemptAll started
    result,      \* what Connect returned
    delay        \* what is left of the backoff strategy's sleep

(***************************************************************************)
(* The node stores: InmemNodeStore and YamlNodeStore, used by goroutines   *)
(* that call Get and Set, and DatabaseNodeStore.                           *)
(***************************************************************************)
VARIABLES
    skind,       \* the store: "inmem", "yaml", or "off" when none is used
    sservers,    \* its field servers
    smu,         \* its field mu: the writer (0: none) and the readers
    spc,         \* where each goroutine is in Get or Set
    sarg,        \* the list each goroutine gave to Set
    sret,        \* Get's slice ret
    sets,        \* the Sets in the order they ran under the lock: list, ok
    sdone,       \* the last of sets that has returned: any, and without error
    sfloor,      \* sdone when each goroutine's Get was called
    sceil,       \* the length of sets when each goroutine's Get returned
    got,         \* what each goroutine's last Get returned
    sbudget      \* calls of Get and Set left

mvars == <<skind, sservers, smu>>
nvars == <<mvars, spc, sarg, sret, sets, sdone, sfloor, sceil, got, sbudget>>

VARIABLES
    table,       \* the rows of the servers table: addresses
    conn,        \* the goroutine that has the connection of db (0: none)
    work,        \* the rows as the transaction in progress has them
    dpc,         \* where each goroutine is in Get or Set
    darg,        \* the list each goroutine gave to Set
    dpos,        \* the position of Set's loop in it
    derr,        \* what each goroutine's last Set returned
    dgot,        \* what each goroutine's last Get returned
    lastOk,      \* the list of the last Set that returned nil
    lastSet,     \* what the last Set that returned has returned
    dbudget      \* calls of Get and Set left

bvars == <<table, conn, work, dpc, darg, dpos, derr, dgot, lastOk, lastSet,
           dbudget>>

(***************************************************************************)
(* driverError of the driver package.                                      *)
(***************************************************************************)
VARIABLES
    callErr,     \* the error given to driverError: its chain, outermost first
    drvErr       \* what driverError returned

devars == <<callErr, drvErr>>

(***************************************************************************)
(* Rows of the driver package.                                             *)
(***************************************************************************)
VARIABLES
    rset,        \* the rows of the result set, in the server's order
    rmarks,      \* the parts of its response that end with the marker of more
    rsent,       \* the responses that More has received
    rserver,     \* the parts of the response the server has still to send
    rbuf,        \* the part in the response buffer the Rows reads
    rpos,        \* the cursor of r.rows in it
    rout,        \* the rows Next has given to its caller, in order
    rstate,      \* "open", or what ended the iteration: "EOF" or an error,
                 \* or "closed"
    consumed,    \* r.consumed
    types,       \* r.types
    named,       \* what the calls of ColumnTypeDatabaseTypeName returned
    rclose       \* what Rows.Close did: "Interrupt" or "nothing"

rvars == <<rset, rmarks, rsent, rserver, rbuf, rpos, rout, rstate, consumed, types, named,
           rclose>>

(***************************************************************************)
(* Exec and Query of the driver package.                                   *)
(***************************************************************************)
VARIABLES
    qbudget,     \* calls of Exec and Query still to make
    qrequest,    \* the request buffer of the connection
    qsent,       \* the requests written to the connection
    qlast        \* the last call: its arguments and what it did

qvars == <<qbudget, qrequest, qsent, qlast>>

(***************************************************************************)
(* App of the app package.                                                 *)
(***************************************************************************)
VARIABLES
    arun,        \* App.run: "running" or "returned"
    astop,       \* the context of App.run is done (a.stop was called)
    aloops,      \* rounds of background tasks still to run
    ajoin,       \* join of App.run
    aready,      \* ready of App.run
    readyCh,     \* a.readyCh is closed
    atasks,      \* which startup tasks have succeeded
    rdpc,        \* each caller of App.Ready: its position
    rdctx,       \* its context is done
    rdret,       \* what App.Ready returned to it
    rdsaw        \* its context and the startup tasks when it returned

appvars == <<arun, astop, aloops, ajoin, aready, readyCh, atasks, rdpc, rdctx,
            rdret, rdsaw>>

(***************************************************************************)
(* Message of the protocol package.                                        *)
(***************************************************************************)
VARIABLES
    mbytes,      \* the bytes of the body
    moffset,     \* the offset of the body, for writes and for reads
    mheader,     \* words, mtype, schema and flags
    mops,        \* the calls made on the Message, with the offsets
    mgot,        \* what the last get method returned
    mpanic       \* a get method found nothing to read

msgvars == <<mbytes, moffset, mheader, mops, mgot, mpanic>>

(***************************************************************************)
(* The response buffer in recvHeader and recvBody.                         *)
(***************************************************************************)
VARIABLES
    recvpc,      \* where the receive is: "idle", "recvBody", "for", and in
                 \* recvPeek "peek" or, inside recvFill, "fill"
    recvs,       \* receives still to make
    reshdr,      \* res.words, res.mtype, res.schema, res.extra
    resn,        \* n of recvBody
    rescap,      \* len(res.body.Bytes)
    rescap0,     \* len(res.body.Bytes) when the header was received
    foffset,     \* offset of recvPeek
    fi,          \* i of recvFill
    fempty,      \* reads of the last recvFill that returned 0 and no error
    fshort,      \* reads so far that returned a part of what was asked
    recverr      \* the error the last receive returned

fillvars == <<foffset, fi, fempty, fshort, recverr>>
recvvars == <<recvpc, recvs, reshdr, resn, rescap, rescap0, fillvars>>

(***************************************************************************)
(* The backoff strategy of makeRetryStrategies.                            *)
(***************************************************************************)
VARIABLES
    bkfactor,    \* factor, as Config.BackoffFactor gives it
    bkcap,       \* cap, as Config.BackoffCap gives it
    bkattempt,   \* the attempt the strategy is called with next
    bkslept      \* the attempt of the last call and what it slept

bkvars == <<bkfactor, bkcap, bkattempt, bkslept>>

(***************************************************************************)
(* closeCh of the Protocol.                                                *)
(***************************************************************************)
VARIABLES
    closeCh      \* p.closeCh: "open", "closed", or "panic" after the close of
                 \* the closed channel

\* The parts of the driver, of the app and of the Message that run apart from
\* a Protocol and a Connector.
extras == <<devars, rvars, qvars, appvars, msgvars, recvvars, bkvars, closeCh>>

\* For each of these parts, the other ones.
restDriverError == <<rvars, qvars, appvars, msgvars, recvvars, bkvars, closeCh>>
restRows == <<devars, rset, rmarks, rclose, qvars, appvars, msgvars, recvvars, bkvars, closeCh>>
restExec == <<devars, rvars, appvars, msgvars, recvvars, bkvars, closeCh>>
restApp == <<devars, rvars, qvars, msgvars, recvvars, bkvars, closeCh>>
restMessage == <<devars, rvars, qvars, appvars, recvvars, bkvars, closeCh>>
restRecv == <<devars, rvars, qvars, appvars, msgvars, bkvars, closeCh>>
restBackoff == <<devars, rvars, qvars, appvars, msgvars, recvvars, closeCh>>
restClose == <<devars, rvars, qvars, appvars, msgvars, recvvars, bkvars>>

kvars == <<store, retryLimit, nvars, bvars, extras>>
lvars == <<attempt, retryErr, protocol, delay>>
avars == <<servers, idx, version, hop, target>>
ovars == <<one, cinfo, from, open>>
cvars == <<kvars, ctxDone, cpc, lvars, avars, ovars, probed, passes, result>>
\* The Connector without the node stores.
xvars == <<store, retryLimit, ctxDone, cpc, lvars, avars, ovars, probed,
           passes, result>>

vars == <<pvars, cvars>>

G == 1..NCallers

\* Response types (protocol.go, "Response types").
ResponseResult == "Result"
ResponseRows == "Rows"
ResponseEmpty == "Empty"

\* What a header decodes to when the eight bytes read are not a header.
MisframedTypes == {"Garbage", ResponseEmpty, ResponseRows}

NoReq == [id |-> 0, kind |-> "none", dl |-> FALSE]
NoResp == [hid |-> 0, hpart |-> "none", mtype |-> "none", more |-> FALSE,
           bid |-> 0, bpart |-> "none"]
NoRows == [id |-> 0, own |-> FALSE, dl |-> FALSE]

\* errors.As(err, &netErr): the error kinds that are a *net.OpError.
IsOpError(e) == e \in {"OpClosed", "OpTimeout", "OpReset"}

\* The response was read in frame and answers request id.
OwnClean(r, id) ==
    /\ r.hid = id /\ r.hpart = "hdr"
    /\ r.bid = id /\ r.bpart = "body"

(***************************************************************************)
(* The stream (net.Conn), as the Go net package implements it: an          *)
(* operation on a closed stream, past the deadline or on a reset           *)
(* connection fails with a *net.OpError; a read from a peer that closed    *)
(* its end returns what is buffered and then io.EOF.                       *)
(***************************************************************************)
\* The error of conn.Write, "nil" when the bytes are accepted.
WriteErr ==
    IF connClosed THEN "OpClosed"
    ELSE IF connDeadline = "expired" THEN "OpTimeout"
    ELSE IF peer = "reset" THEN "OpReset"
    ELSE "nil"

\* The error of conn.Read, "nil" when it returns data (or waits for it).
ReadErr ==
    IF connClosed THEN "OpClosed"
    ELSE IF connDeadline = "expired" THEN "OpTimeout"
    ELSE IF peer = "reset" THEN "OpReset"
    ELSE IF inbox = <<>> /\ peer = "closed" THEN "EOF"
    ELSE "nil"

\* A response message on the stream: its header and its body.
Reply(id, mtype, more) ==
    << [id |-> id, part |-> "hdr", mtype |-> mtype, more |-> more],
       [id |-> id, part |-> "body", mtype |-> mtype, more |-> more] >>

(***************************************************************************)
(* Protocol.Call, Protocol.More and Protocol.Interrupt.                    *)
(***************************************************************************)
\* A mutex that does not exclude (mutant of MuFree).
MuFreeNoExclusion == TRUE

\* p.mu.Lock() returns only when no goroutine holds the mutex.
MuFree == mu = 0

\* A Call that never looks at the cached error (mutant of HasNetErr).
HasNetErrIgnored == FALSE

\* "if p.netErr != nil" at the head of Call.
HasNetErr == netErr # "nil"

\* A deferred function that does not cache timeouts (mutant of RecordNetErr).
RecordNetErrNoTimeout(e) ==
    IF e # "nil" /\ IsOpError(e) /\ e # "OpTimeout" THEN e ELSE netErr

\* Call's deferred function: p.netErr after a Call returning e.
RecordNetErr(e) == IF e # "nil" /\ IsOpError(e) THEN e ELSE netErr

\* A loop that stops at the first response (mutant of InterruptDone).
InterruptDoneAtFirst(mtype) == TRUE

\* "if mtype == ResponseEmpty { break }" in Interrupt's loop.
InterruptDone(mtype) == mtype = ResponseEmpty

\* The operations started so far, those waiting for the mutex included.
Started == (nextId - 1) + Cardinality({g \in G : pc[g] = "lock"})

\* A goroutine enters Call with a request and a context.
CallBegin(g) ==
    /\ g \in callers /\ pc[g] = "idle"
    /\ Started < budget
    /\ rows[g].id = 0
    /\ \E kind \in {"plain", "query"}, dl \in BOOLEAN :
         req' = [req EXCEPT ![g] = [id |-> 0, kind |-> kind, dl |-> dl]]
    /\ op' = [op EXCEPT ![g] = "Call"]
    /\ pc' = [pc EXCEPT ![g] = "lock"]
    /\ UNCHANGED <<cvars, callers, budget,
                   fvars, dvars, wire, inbox, svars, err, resp, rows,
                   hvars>>

\* Rows.Close on a result set with parts left: Interrupt, with the query's ctx.
InterruptBegin(g) ==
    /\ g \in callers /\ pc[g] = "idle"
    /\ Started < budget
    /\ rows[g].id # 0
    /\ req' = [req EXCEPT ![g] = [id |-> 0, kind |-> "interrupt",
                                  dl |-> rows[g].dl]]
    /\ op' = [op EXCEPT ![g] = "Interrupt"]
    /\ pc' = [pc EXCEPT ![g] = "lock"]
    /\ UNCHANGED <<cvars, callers, budget,
                   fvars, dvars, wire, inbox, svars, err, resp, rows,
                   hvars>>

\* Rows.Next at the end of a part: More, with no lock and no deadline.
MoreBegin(g) ==
    /\ g \in callers /\ pc[g] = "idle"
    /\ rows[g].id # 0
    /\ req' = [req EXCEPT ![g] = [id |-> rows[g].id, kind |-> "more",
                                  dl |-> FALSE]]
    /\ op' = [op EXCEPT ![g] = "More"]
    /\ pc' = [pc EXCEPT ![g] = "recvHeader"]
    /\ UNCHANGED <<cvars, callers, budget,
                   fvars, dvars, wire, inbox, svars, err, resp, rows,
                   hvars>>

\* A Call that never sets the deadline (mutant of SetDeadline).
SetDeadlineSkipped(g) == connDeadline

\* p.conn.SetDeadline(deadline) when the context has a deadline: a deadline
\* that has already passed makes the reads and writes fail at once.
SetDeadline(g) ==
    IF req[g].dl THEN IF g \in expired THEN "expired" ELSE "armed"
                 ELSE connDeadline

\* The deadline of the context of a Call or Interrupt passes while the
\* goroutine is in p.mu.Lock(): nothing wakes the goroutine.
CtxDeadlinePasses(g) ==
    /\ pc[g] = "lock"
    /\ req[g].dl
    /\ g \notin expired
    /\ expired' = expired \cup {g}
    /\ UNCHANGED <<cvars, callers, budget, fvars, dvars, wire, inbox, svars,
                   gvars, drained, abandoned, nextId>>

\* Call, from p.mu.Lock() and the check of p.netErr to the deadline being set.
CallLock(g) ==
    /\ pc[g] = "lock" /\ op[g] = "Call"
    /\ MuFree
    /\ mu' = g
    /\ req' = [req EXCEPT ![g].id = nextId]
    /\ nextId' = nextId + 1
    /\ IF HasNetErr
         THEN /\ err' = [err EXCEPT ![g] = netErr]
              /\ pc' = [pc EXCEPT ![g] = "unlock"]
              /\ UNCHANGED connDeadline
         ELSE /\ connDeadline' = SetDeadline(g)
              /\ pc' = [pc EXCEPT ![g] = "sendHeader"]
              /\ UNCHANGED err
    /\ expired' = expired \ {g}
    /\ UNCHANGED <<cvars, callers, budget,
                   netErr, connClosed, peer, wire, inbox, svars, op,
                   resp, rows, drained, abandoned>>

\* Interrupt, from p.mu.Lock() to the deadline being set: p.netErr is not read.
InterruptLock(g) ==
    /\ pc[g] = "lock" /\ op[g] = "Interrupt"
    /\ MuFree
    /\ mu' = g
    /\ req' = [req EXCEPT ![g].id = nextId]
    /\ nextId' = nextId + 1
    /\ connDeadline' = SetDeadline(g)
    /\ pc' = [pc EXCEPT ![g] = "sendHeader"]
    /\ expired' = expired \ {g}
    /\ UNCHANGED <<cvars, callers, budget,
                   netErr, connClosed, peer, wire, inbox, svars, op,
                   err, resp, rows, drained, abandoned>>

\* One write of send: the header (part = "hdr") or the body (part = "body").
\* conn.Write fails, or takes all the bytes, or takes fewer without an error
\* (part = "short"), which sendHeader and sendBody turn into io.ErrShortWrite.
SendPart(g, part, then) ==
    /\ IF WriteErr = "nil"
         THEN \/ /\ wire' = Append(wire, [id |-> req[g].id, part |-> part,
                                          kind |-> req[g].kind])
                 /\ pc' = [pc EXCEPT ![g] = then]
                 /\ UNCHANGED err
              \/ /\ wire' = Append(wire, [id |-> req[g].id, part |-> "short",
                                          kind |-> req[g].kind])
                 /\ err' = [err EXCEPT ![g] = "ErrShortWrite"]
                 /\ pc' = [pc EXCEPT ![g] = "defer"]
         ELSE /\ err' = [err EXCEPT ![g] = WriteErr]
              /\ pc' = [pc EXCEPT ![g] = "defer"]
              /\ UNCHANGED wire
    /\ UNCHANGED <<cvars, callers, budget,
                   fvars, dvars, inbox, svars, op, req, resp, rows,
                   hvars>>

\* A send that leaves the body for after the response (mutant of SendBody).
SendBodyLater(g) ==
    /\ pc[g] = "sendBody"
    /\ pc' = [pc EXCEPT ![g] = "recvHeader"]
    /\ UNCHANGED <<cvars, callers, budget, fvars, dvars, wire, inbox, svars,
                   op, req, err, resp, rows, hvars>>

\* sendHeader: the first write of a request.
SendHeader(g) == pc[g] = "sendHeader" /\ SendPart(g, "hdr", "sendBody")

\* sendBody: the second write of a request; the receive follows.
SendBody(g) == pc[g] = "sendBody" /\ SendPart(g, "body", "recvHeader")

\* recvHeader: read eight bytes and decode them as a header.
RecvHeader(g) ==
    /\ pc[g] = "recvHeader"
    /\ IF ReadErr # "nil"
         THEN /\ err' = [err EXCEPT ![g] = ReadErr]
              /\ pc' = [pc EXCEPT ![g] = "defer"]
              /\ UNCHANGED <<inbox, resp>>
         ELSE /\ inbox # <<>>
              /\ LET c == Head(inbox) IN
                   IF c.part = "hdr"
                     THEN resp' = [resp EXCEPT ![g] =
                                     [hid |-> c.id, hpart |-> "hdr",
                                      mtype |-> c.mtype, more |-> c.more,
                                      bid |-> 0, bpart |-> "none"]]
                     ELSE \E t \in MisframedTypes :
                            resp' = [resp EXCEPT ![g] =
                                       [hid |-> c.id, hpart |-> c.part,
                                        mtype |-> t, more |-> t = ResponseRows,
                                        bid |-> 0, bpart |-> "none"]]
              /\ inbox' = Tail(inbox)
              /\ pc' = [pc EXCEPT ![g] = "recvBody"]
              /\ UNCHANGED err
    /\ UNCHANGED <<cvars, callers, budget,
                   fvars, dvars, wire, svars, op, req, rows, hvars>>

\* recvBody: read words*8 bytes; Interrupt then loops unless the type is Empty.
RecvBody(g) ==
    /\ pc[g] = "recvBody"
    /\ IF ReadErr # "nil"
         THEN /\ err' = [err EXCEPT ![g] = ReadErr]
              /\ pc' = [pc EXCEPT ![g] = "defer"]
              /\ UNCHANGED <<inbox, resp>>
         ELSE /\ inbox # <<>>
              /\ resp' = [resp EXCEPT ![g].bid = Head(inbox).id,
                                      ![g].bpart = Head(inbox).part]
              /\ inbox' = Tail(inbox)
              /\ pc' = [pc EXCEPT ![g] =
                          IF op[g] = "Interrupt" /\ ~InterruptDone(resp[g].mtype)
                            THEN "recvHeader" ELSE "defer"]
              /\ UNCHANGED err
    /\ UNCHANGED <<cvars, callers, budget,
                   fvars, dvars, wire, svars, op, req, rows, hvars>>

\* The driver's Rows after the operation of g returns (Stmt.QueryContext,
\* Rows.Next, Rows.Close).
RowsAfter(g) ==
    CASE op[g] = "Call" ->
           IF /\ err[g] = "nil" /\ req[g].kind = "query"
              /\ resp[g].mtype = ResponseRows /\ resp[g].more
             THEN [id |-> req[g].id, own |-> OwnClean(resp[g], req[g].id),
                   dl |-> req[g].dl]
             ELSE NoRows
      [] op[g] = "More" ->
           IF err[g] # "nil" THEN rows[g]
           ELSE IF resp[g].mtype # ResponseRows
                  THEN [rows[g] EXCEPT !.own = FALSE]
           ELSE IF resp[g].more
                  THEN [rows[g] EXCEPT
                          !.own = @ /\ OwnClean(resp[g], rows[g].id)]
           ELSE NoRows
      [] OTHER -> NoRows

\* A Call that timed out between the header and the body of its response.
TimedOutMidReceive(g) ==
    /\ op[g] = "Call" /\ err[g] = "OpTimeout"
    /\ resp[g].hpart # "none" /\ resp[g].bpart = "none"

\* The return of the operation: the deferred calls, last registered first.
Return(g) ==
    /\ pc[g] = "defer"
    /\ connDeadline' = IF op[g] # "More" /\ req[g].dl THEN "none"
                       ELSE connDeadline
    /\ netErr' = IF op[g] = "Call" THEN RecordNetErr(err[g]) ELSE netErr
    /\ mu' = IF op[g] = "More" THEN mu ELSE 0
    /\ rows' = [rows EXCEPT ![g] = RowsAfter(g)]
    /\ abandoned' = IF TimedOutMidReceive(g)
                      THEN abandoned \cup {resp[g].hid} ELSE abandoned
    /\ drained' = CASE op[g] = "Interrupt" -> err[g] = "nil" /\ rows[g].own
                    [] op[g] = "Call" -> FALSE
                    [] OTHER -> drained
    /\ pc' = [pc EXCEPT ![g] = "idle"]
    /\ op' = [op EXCEPT ![g] = "none"]
    /\ req' = [req EXCEPT ![g] = NoReq]
    /\ err' = [err EXCEPT ![g] = "nil"]
    /\ resp' = [resp EXCEPT ![g] = NoResp]
    /\ UNCHANGED <<cvars, callers, budget,
                   connClosed, peer, wire, inbox, svars, nextId, expired>>

\* The return of a Call that found p.netErr set: only the mutex is released.
Unlock(g) ==
    /\ pc[g] = "unlock"
    /\ mu' = 0
    /\ drained' = FALSE
    /\ pc' = [pc EXCEPT ![g] = "idle"]
    /\ op' = [op EXCEPT ![g] = "none"]
    /\ req' = [req EXCEPT ![g] = NoReq]
    /\ err' = [err EXCEPT ![g] = "nil"]
    /\ UNCHANGED <<cvars, callers, budget,
                   netErr, dvars, wire, inbox, svars, resp, rows,
                   abandoned, nextId, expired>>

\* A Close that waits for the mutex before closing (mutant of Close).
CloseUnderLock ==
    /\ MuFree
    /\ ~connClosed
    /\ connClosed' = TRUE
    /\ closeCh' = "closed"
    /\ UNCHANGED <<store, retryLimit, nvars, bvars, restClose, ctxDone, cpc,
                   lvars, avars, ovars, probed, passes, result, callers, budget,
                   fvars, connDeadline, peer, wire, inbox, svars,
                   gvars, hvars>>

\* Protocol.Close: "close(p.closeCh)" and then p.conn.Close(), which closes
\* the stream, without taking the mutex. The close of a channel that is
\* closed panics, p.conn.Close() is not reached and the program ends: no
\* goroutine runs after it (the second Close is called while no operation is
\* in progress).
Close ==
    /\ \/ /\ closeCh = "open"
          /\ closeCh' = "closed"
          /\ connClosed' = TRUE
          /\ UNCHANGED callers
       \/ /\ closeCh = "closed"
          /\ \A g \in G : pc[g] = "idle"
          /\ closeCh' = "panic"
          /\ callers' = {}
          /\ UNCHANGED connClosed
    /\ UNCHANGED <<store, retryLimit, nvars, bvars, restClose, ctxDone, cpc,
                   lvars, avars, ovars, probed, passes, result, budget,
                   fvars, connDeadline, peer, wire, inbox, svars,
                   gvars, hvars>>

(***************************************************************************)
(* The environment: the clock, the peer and the server.                    *)
(***************************************************************************)
\* The deadline set on the stream passes.
DeadlineExpires ==
    /\ connDeadline = "armed"
    /\ connDeadline' = "expired"
    /\ UNCHANGED <<cvars, callers, budget,
                   fvars, connClosed, peer, wire, inbox, svars,
                   gvars, hvars>>

\* The peer closes its end of the connection.
PeerClose ==
    /\ peer = "up"
    /\ peer' = "closed"
    /\ UNCHANGED <<cvars, callers, budget,
                   fvars, connDeadline, connClosed, wire, inbox,
                   svars, gvars, hvars>>

\* The connection is reset.
PeerReset ==
    /\ peer = "up"
    /\ peer' = "reset"
    /\ UNCHANGED <<cvars, callers, budget,
                   fvars, connDeadline, connClosed, wire, inbox,
                   svars, gvars, hvars>>

\* The server reads one whole request and answers it: one response, the
\* first of the parts of a result set, or Empty for an interrupt, which also
\* ends the query being streamed.
ServerHandle ==
    /\ peer = "up"
    /\ srvPos + 2 <= Len(wire)
    /\ LET h == wire[srvPos + 1]
           b == wire[srvPos + 2]
       IN  /\ h.part = "hdr" /\ b.part = "body" /\ h.id = b.id
           /\ \/ /\ h.kind = "plain"
                 /\ srvQuery.left = 0
                 /\ inbox' = inbox \o Reply(h.id, ResponseResult, FALSE)
                 /\ UNCHANGED srvQuery
              \/ /\ h.kind = "query"
                 /\ srvQuery.left = 0
                 /\ \E n \in 1..MaxParts :
                      /\ inbox' = inbox \o Reply(h.id, ResponseRows, n > 1)
                      /\ srvQuery' = IF n = 1 THEN [id |-> 0, left |-> 0]
                                     ELSE [id |-> h.id, left |-> n - 1]
              \/ /\ h.kind = "interrupt"
                 /\ srvQuery' = [id |-> 0, left |-> 0]
                 /\ inbox' = inbox \o Reply(h.id, ResponseEmpty, FALSE)
    /\ srvPos' = srvPos + 2
    /\ UNCHANGED <<cvars, callers, budget,
                   fvars, dvars, wire, gvars, hvars>>

\* The server sends the next part of the result set it is streaming.
ServerSendPart ==
    /\ peer = "up"
    /\ srvQuery.left > 0
    /\ inbox' = inbox \o Reply(srvQuery.id, ResponseRows, srvQuery.left > 1)
    /\ srvQuery' = IF srvQuery.left = 1 THEN [id |-> 0, left |-> 0]
                   ELSE [srvQuery EXCEPT !.left = @ - 1]
    /\ UNCHANGED <<cvars, callers, budget,
                   fvars, dvars, wire, srvPos, gvars, hvars>>

(***************************************************************************)
(* The Connector: Connect, connectAttemptAll, connectAttemptOne.           *)
(***************************************************************************)
\* Protocol versions (protocol.go, VersionOne and VersionLegacy).
VersionOne == "One"
VersionLegacy == "Legacy"

\* Node roles (protocol.go, Voter, StandBy, Spare).
Voter == 0
StandBy == 1
Spare == 2
Roles == {Voter, StandBy, Spare}

\* Response types of the leader and the client exchange.
ResponseFailure == "Failure"
ResponseNode == "Node"
ResponseWelcome == "Welcome"

\* Node addresses; NoAddress is the empty string.
Addresses == 1..NNodes
NoAddress == 0

\* No connection (a nil *Protocol); a connection is named by the pass, the
\* position in the sorted servers and the call of connectAttemptOne that
\* dialed it.
NilConn == <<0, 0, "none">>

NoOne == [protocol |-> NilConn, leader |-> NoAddress, err |-> "none"]
NoInfo == [id |-> NilConn, addr |-> NoAddress, version |-> VersionOne,
           hop |-> "none", lerr |-> "none", leader |-> NoAddress,
           answered |-> FALSE, welcome |-> FALSE]
NoResult == [protocol |-> NilConn, err |-> "none"]

\* The roles of a list of n nodes: any roles in any order for a list of fewer
\* than NNodes nodes; a list of NNodes nodes has one role for all its nodes or
\* a role of its own for each.
RolesOf(n) ==
    {r \in [1..n -> Roles] :
        n < NNodes \/ Cardinality({r[i] : i \in 1..n}) \in {1, n}}

\* What NodeStore.Get may return: up to NNodes nodes.
Stores ==
    UNION {{[i \in 1..n |-> [addr |-> i, role |-> r[i]]] : r \in RolesOf(n)} :
           n \in 0..NNodes}

\* The errors a Call of connectAttemptOne may return: a timeout and a reset
\* (both *net.OpError), io.EOF, and an error that is neither.
CallErrs == {"OpTimeout", "OpReset", "EOF", "ErrNoProgress"}

\* A detection that takes a timeout for a pre-1.0 server too (mutant of
\* BadProtocol).
BadProtocolAlsoTimeout(e) == IsOpError(e) \/ e = "EOF"

\* The condition under which connectAttemptOne returns errBadProtocol.
BadProtocol(e) == (IsOpError(e) /\ e # "OpTimeout") \/ e = "EOF"

\* DecodeNode: the leader and the error decoded from a response of type mtype
\* that names address a.
DecodeNode(mtype, a) ==
    IF mtype = ResponseNode THEN [leader |-> a, err |-> "nil"]
                            ELSE [leader |-> NoAddress, err |-> "decode"]

\* DecodeNodeLegacy: the same for the response of a pre-1.0 server.
DecodeNodeLegacy(mtype, a) ==
    IF mtype = ResponseNode THEN [leader |-> a, err |-> "nil"]
                            ELSE [leader |-> NoAddress, err |-> "decode"]

\* DecodeNodeCompat on a Protocol of version v.
DecodeNodeCompat(v, mtype, a) ==
    IF v = VersionLegacy THEN DecodeNodeLegacy(mtype, a) ELSE DecodeNode(mtype, a)

\* DecodeWelcome: the error of decoding a response of the given type.
DecodeWelcome(mtype) == IF mtype = ResponseWelcome THEN "nil" ELSE "decode"

\* A switch that takes every known leader for the dialed address (mutant of
\* IsSelf).
IsSelfAnyLeader(leader, address) == leader # NoAddress

\* "case address:" in connectAttemptOne's switch on the leader.
IsSelf(leader, address) == leader = address

\* A comparison that orders high roles first (mutant of RoleLess).
RoleLessReversed(a, b) == a.role > b.role

\* The less function given to sort.Slice.
RoleLess(a, b) == a.role < b.role

\* The slices sort.Slice may leave: the permutations of s that are in order
\* for the less function (sort.Slice is not stable).
SortSlice(s) ==
    LET n == Len(s)
        perms == {f \in [1..n -> 1..n] : \A i, j \in 1..n : i # j => f[i] # f[j]}
        sorted(t) == \A i, j \in 1..n : i < j => ~RoleLess(t[j], t[i])
    IN  {t \in {[i \in 1..n |-> s[f[i]]] : f \in perms} : sorted(t)}

\* A retry strategy that allows every attempt (mutant of ShouldAttempt).
ShouldAttemptAlways(a) == TRUE

\* Strategies with strategy.Limit(limit) for every limit, also for the
\* limit 1 that stands for RetryLimit = 0 (mutant of ShouldAttempt).
ShouldAttemptLimited(a) == a < retryLimit + 1

\* The strategies of makeRetryStrategies, as retry.Retry evaluates them for
\* attempt a: strategy.Limit(limit) when limit > 1, after limit += 1.
ShouldAttempt(a) ==
    LET limit == retryLimit + 1
    IN  limit > 1 => a < limit

\* A select that never sees the context done (mutant of SelectDone).
SelectDoneNever == FALSE

\* "case <-ctx.Done():" in the action given to retry.Retry.
SelectDone == ctxDone

\* A Connect that does not look at the context after the loop (mutant of
\* CtxErr).
CtxErrNever == FALSE

\* "ctx.Err() != nil" after retry.Retry returned.
CtxErr == ctxDone

\* The action given to retry.Retry returns: protocol and err are assigned,
\* Retry increments attempt, and the locals of connectAttemptAll are gone.
PassEnds(p, e) ==
    /\ protocol' = p
    /\ retryErr' = e
    /\ attempt' = attempt + 1
    /\ delay' = delay
    /\ cpc' = "retry"
    /\ servers' = <<>>
    /\ idx' = 0
    /\ version' = VersionOne
    /\ hop' = "none"
    /\ target' = NoAddress
    /\ one' = NoOne
    /\ probed' = <<>>
    /\ IF p = NilConn THEN cinfo' = NoInfo /\ from' = NilConn
                      ELSE UNCHANGED <<cinfo, from>>

\* A call of connectAttemptOne begins.
StartOne(addr, v, h) ==
    /\ target' = addr
    /\ version' = v
    /\ hop' = h
    /\ one' = NoOne
    /\ cinfo' = NoInfo
    /\ cpc' = "dial"

\* connectAttemptOne returns after closing the connection it dialed.
CloseAndReturn(leader, e) ==
    /\ open' = open \ {cinfo.id}
    /\ one' = [protocol |-> NilConn, leader |-> leader, err |-> e]
    /\ cpc' = "after"

\* The sleep of the backoff strategy before attempt a > 0:
\* backoff.BinaryExponential(factor), capped.
Duration(a) ==
    LET duration == BackoffFactor * 2 ^ a
    IN  IF duration > BackoffCap \/ duration <= 0 THEN BackoffCap ELSE duration

\* retry.Retry's loop condition: leave the loop, sleep, or run the action.
RetryLoop ==
    /\ cpc = "retry"
    /\ IF (attempt = 0 \/ retryErr # "nil") /\ ShouldAttempt(attempt)
         THEN /\ attempt < MaxAttempts
              /\ cpc' = IF attempt > 0 THEN "backoff" ELSE "select"
              /\ delay' = IF attempt > 0 THEN Duration(attempt) ELSE delay
         ELSE cpc' = "check" /\ delay' = delay
    /\ UNCHANGED <<pvars, kvars, ctxDone, attempt, retryErr, protocol, avars,
                   ovars, probed, passes, result>>

\* Time passes while time.Sleep(duration) of the backoff strategy runs.
Sleeping ==
    /\ cpc = "backoff"
    /\ delay > 0
    /\ delay' = delay - 1
    /\ UNCHANGED <<pvars, kvars, ctxDone, cpc, attempt, retryErr, protocol,
                   avars, ovars, probed, passes, result>>

\* time.Sleep returns when the duration has passed, and not before.
SleepOver == delay = 0

\* time.Sleep(duration) in the backoff strategy returns.
BackoffDone ==
    /\ cpc = "backoff"
    /\ SleepOver
    /\ cpc' = "select"
    /\ UNCHANGED <<pvars, kvars, ctxDone, lvars, avars, ovars, probed, passes,
                   result>>

\* The select at the head of the action: return nil when the context is done,
\* else call connectAttemptAll.
Select ==
    /\ cpc = "select"
    /\ IF SelectDone
         THEN /\ PassEnds(protocol, "nil")
              /\ UNCHANGED passes
         ELSE /\ cpc' = "get"
              /\ passes' = passes + 1
              /\ UNCHANGED <<lvars, avars, one, cinfo, from, probed>>
    /\ UNCHANGED <<pvars, kvars, ctxDone, open, result>>

\* A Get that returns the slice of the store itself (mutant of GetCopies).
GetAliases == FALSE

\* NodeStore.Get returns a slice of its own, "ret := make(...); copy(ret,
\* i.servers)", and not the one the store holds.
GetCopies == TRUE

\* c.store.Get and sort.Slice in connectAttemptAll, up to the first
\* connectAttemptOne: sort.Slice reorders the slice that Get returned, which
\* is the slice of the store when Get does not copy.
GetServers ==
    /\ cpc = "get"
    /\ \/ PassEnds(NilConn, "err") /\ store' = store
       \/ \E s \in SortSlice(store) :
            /\ store' = IF GetCopies THEN store ELSE s
            /\ IF s = <<>>
                 THEN PassEnds(NilConn, "err")
                 ELSE /\ servers' = s
                      /\ idx' = 1
                      /\ StartOne(s[1].addr, VersionOne, "first")
                      /\ UNCHANGED <<lvars, from, probed>>
    /\ UNCHANGED <<pvars, retryLimit, nvars, bvars, extras, ctxDone, open,
                   passes, result>>

\* c.config.Dial in connectAttemptOne.
Dial ==
    /\ cpc = "dial"
    /\ probed' = IF hop = "redirect" THEN probed
                                     ELSE Append(probed, servers[idx].role)
    /\ \/ /\ one' = [protocol |-> NilConn, leader |-> NoAddress, err |-> "dial"]
          /\ cpc' = "after"
          /\ UNCHANGED <<cinfo, open>>
       \/ /\ cinfo' = [id |-> <<passes, idx, hop>>, addr |-> target,
                       version |-> version, hop |-> hop, lerr |-> "none",
                       leader |-> NoAddress, answered |-> FALSE,
                       welcome |-> FALSE]
          /\ open' = open \cup {<<passes, idx, hop>>}
          /\ cpc' = "handshake"
          /\ UNCHANGED one
    /\ UNCHANGED <<pvars, kvars, ctxDone, lvars, avars, from, passes, result>>

\* Handshake in connectAttemptOne: a failed write closes the connection.
Handshake ==
    /\ cpc = "handshake"
    /\ \/ CloseAndReturn(NoAddress, "write handshake")
       \/ /\ cpc' = "leader"
          /\ UNCHANGED <<one, open>>
    /\ UNCHANGED <<pvars, kvars, ctxDone, lvars, avars, cinfo, from, probed,
                   passes, result>>

\* The Leader request of connectAttemptOne, DecodeNodeCompat and the switch on
\* the leader.
LeaderCall ==
    /\ cpc = "leader"
    /\ \/ \E e \in CallErrs :
            /\ CloseAndReturn(NoAddress,
                              IF BadProtocol(e) THEN "errBadProtocol" ELSE e)
            /\ cinfo' = [cinfo EXCEPT !.lerr = e]
       \/ \E mtype \in {ResponseNode, ResponseFailure}, a \in {NoAddress} \cup Addresses :
            LET d == DecodeNodeCompat(version, mtype, a)
            IN  IF d.err # "nil"
                  THEN /\ CloseAndReturn(NoAddress, d.err)
                       /\ UNCHANGED cinfo
                  ELSE /\ cinfo' = [cinfo EXCEPT !.leader = d.leader,
                                                 !.answered = TRUE]
                       /\ IF d.leader = NoAddress
                            THEN CloseAndReturn(NoAddress, "nil")
                            ELSE IF IsSelf(d.leader, target)
                                   THEN /\ cpc' = "client"
                                        /\ UNCHANGED <<one, open>>
                                   ELSE CloseAndReturn(d.leader, "nil")
    /\ UNCHANGED <<pvars, kvars, ctxDone, lvars, avars, from, probed, passes,
                   result>>

\* The Client request of connectAttemptOne and DecodeWelcome.
ClientCall ==
    /\ cpc = "client"
    /\ \/ \E e \in CallErrs :
            /\ CloseAndReturn(NoAddress, e)
            /\ UNCHANGED cinfo
       \/ \E mtype \in {ResponseWelcome, ResponseFailure} :
            IF DecodeWelcome(mtype) # "nil"
              THEN /\ CloseAndReturn(NoAddress, DecodeWelcome(mtype))
                   /\ UNCHANGED cinfo
              ELSE /\ cinfo' = [cinfo EXCEPT !.welcome = TRUE]
                   /\ one' = [protocol |-> cinfo.id, leader |-> NoAddress,
                              err |-> "nil"]
                   /\ cpc' = "after"
                   /\ UNCHANGED open
    /\ UNCHANGED <<pvars, kvars, ctxDone, lvars, avars, from, probed, passes,
                   result>>

\* "continue" in connectAttemptAll's loop: the next server, or the return
\* after the loop.
Continue ==
    IF idx < Len(servers)
      THEN /\ idx' = idx + 1
           /\ StartOne(servers[idx + 1].addr, VersionOne, "first")
           /\ from' = NilConn
           /\ UNCHANGED <<lvars, servers, probed>>
      ELSE PassEnds(NilConn, "err")

\* A loop that follows the leader named by a redirect target too (mutant of
\* NoRedirect).
NoRedirectChained == one.leader = NoAddress

\* connectAttemptOne returned no Protocol and no error, and connectAttemptAll
\* goes to the next server: the leader is "" after the first or legacy call,
\* or the call was the one to a reported leader.
NoRedirect == hop = "redirect" \/ one.leader = NoAddress

\* connectAttemptAll after a connectAttemptOne returned.
AfterOne ==
    /\ cpc = "after"
    /\ IF hop = "first" /\ one.err = "errBadProtocol"
         THEN /\ StartOne(target, VersionLegacy, "legacy")
              /\ UNCHANGED <<lvars, servers, idx, from, probed>>
         ELSE IF one.err # "nil"
           THEN Continue
           ELSE IF one.protocol # NilConn
             THEN PassEnds(one.protocol, "nil")
             ELSE IF NoRedirect
               THEN Continue
               ELSE /\ StartOne(one.leader, version, "redirect")
                    /\ from' = cinfo.id
                    /\ UNCHANGED <<lvars, servers, idx, probed>>
    /\ UNCHANGED <<pvars, kvars, ctxDone, open, passes, result>>

\* Connect after retry.Retry returned.
CheckCtx ==
    /\ cpc = "check"
    /\ result' = IF retryErr # "nil"
                   THEN [protocol |-> NilConn, err |-> "ErrNoAvailableLeader"]
                   ELSE IF CtxErr
                     THEN [protocol |-> NilConn, err |-> "ErrNoAvailableLeader"]
                     ELSE IF protocol = NilConn
                       THEN [protocol |-> NilConn, err |-> "panic"]
                       ELSE [protocol |-> protocol, err |-> "nil"]
    /\ cpc' = "done"
    /\ UNCHANGED <<pvars, kvars, ctxDone, lvars, avars, ovars, probed, passes>>

\* The context given to Connect is cancelled or reaches its deadline.
CtxCancel ==
    /\ cpc \notin {"done", "off"}
    /\ ~ctxDone
    /\ ctxDone' = TRUE
    /\ UNCHANGED <<pvars, kvars, cpc, lvars, avars, ovars, probed, passes,
                   result>>

(***************************************************************************)
(* InmemNodeStore and YamlNodeStore.                                       *)
(***************************************************************************)
SG == 1..NStoreCallers

\* The lists of nodes a caller may give to Set, a node being its address.
RECURSIVE ListsUpTo(_)
ListsUpTo(n) ==
    IF n = 0 THEN {<<>>}
             ELSE ListsUpTo(n - 1) \cup [1..n -> 1..MaxAddr]

NodeLists == ListsUpTo(MaxListLen)

\* A Get that has not returned.
NoList == <<0>>

\* An RLock that does not wait for the writer (mutant of RLockFree).
RLockFreeAlways == TRUE

\* mu.RLock() returns when no goroutine holds the write lock.
RLockFree == smu.w = 0

\* mu.Lock() returns when no goroutine holds the lock, to read or to write.
LockFree == smu.w = 0 /\ smu.r = {}

\* make([]NodeInfo, n): n zero values.
Make(n) == [i \in 1..n |-> 0]

\* copy(dst, src): the first min(len(dst), len(src)) elements.
Copy(dst, src) ==
    [i \in 1..Len(dst) |-> IF i <= Len(src) THEN src[i] ELSE dst[i]]

Max(a, b) == IF a > b THEN a ELSE b

\* A goroutine calls Get.
GetBegin(g) ==
    /\ skind # "off"
    /\ spc[g] = "idle"
    /\ sbudget > 0
    /\ sbudget' = sbudget - 1
    /\ spc' = [spc EXCEPT ![g] = "rlock"]
    /\ sfloor' = [sfloor EXCEPT ![g] = sdone]
    /\ got' = [got EXCEPT ![g] = NoList]
    /\ UNCHANGED <<pvars, xvars, extras, bvars, mvars, sarg, sret, sets, sdone, sceil>>

\* s.mu.RLock() in Get.
GetRLock(g) ==
    /\ spc[g] = "rlock"
    /\ RLockFree
    /\ smu' = [smu EXCEPT !.r = @ \cup {g}]
    /\ spc' = [spc EXCEPT ![g] = "make"]
    /\ UNCHANGED <<pvars, xvars, extras, bvars, skind, sservers, sarg, sret, sets, sdone,
                   sfloor, sceil, got, sbudget>>

\* ret := make([]NodeInfo, len(s.servers)) in Get.
GetMake(g) ==
    /\ spc[g] = "make"
    /\ sret' = [sret EXCEPT ![g] = Make(Len(sservers))]
    /\ spc' = [spc EXCEPT ![g] = "copy"]
    /\ UNCHANGED <<pvars, xvars, extras, bvars, mvars, sarg, sets, sdone, sfloor, sceil, got,
                   sbudget>>

\* copy(ret, s.servers) in Get.
GetCopy(g) ==
    /\ spc[g] = "copy"
    /\ sret' = [sret EXCEPT ![g] = Copy(sret[g], sservers)]
    /\ spc' = [spc EXCEPT ![g] = "runlock"]
    /\ UNCHANGED <<pvars, xvars, extras, bvars, mvars, sarg, sets, sdone, sfloor, sceil, got,
                   sbudget>>

\* Get returns ret, nil after the deferred s.mu.RUnlock().
GetReturn(g) ==
    /\ spc[g] = "runlock"
    /\ smu' = [smu EXCEPT !.r = @ \ {g}]
    /\ got' = [got EXCEPT ![g] = sret[g]]
    /\ sceil' = [sceil EXCEPT ![g] = Len(sets)]
    /\ sret' = [sret EXCEPT ![g] = <<>>]
    /\ spc' = [spc EXCEPT ![g] = "idle"]
    /\ UNCHANGED <<pvars, xvars, extras, bvars, skind, sservers, sarg, sets, sdone, sfloor,
                   sbudget>>

\* A goroutine calls Set with a list.
SetBegin(g) ==
    /\ skind # "off"
    /\ spc[g] = "idle"
    /\ sbudget > 0
    /\ sbudget' = sbudget - 1
    /\ \E l \in NodeLists : sarg' = [sarg EXCEPT ![g] = l]
    /\ spc' = [spc EXCEPT ![g] = "lock"]
    /\ UNCHANGED <<pvars, xvars, extras, bvars, mvars, sret, sets, sdone, sfloor, sceil, got>>

\* s.mu.Lock() in Set.
SetLock(g) ==
    /\ spc[g] = "lock"
    /\ LockFree
    /\ smu' = [smu EXCEPT !.w = g]
    /\ spc' = [spc EXCEPT ![g] = "store"]
    /\ UNCHANGED <<pvars, xvars, extras, bvars, skind, sservers, sarg, sret, sets, sdone,
                   sfloor, sceil, got, sbudget>>

\* Set under the lock: s.servers = servers; in YamlNodeStore after
\* yaml.Marshal and renameio.WriteFile, and not when one of them fails.
SetStore(g) ==
    /\ spc[g] = "store"
    /\ \/ /\ sservers' = sarg[g]
          /\ sets' = Append(sets, [list |-> sarg[g], ok |-> TRUE, by |-> g])
       \/ /\ skind = "yaml"
          /\ sets' = Append(sets, [list |-> sarg[g], ok |-> FALSE, by |-> g])
          /\ UNCHANGED sservers
    /\ spc' = [spc EXCEPT ![g] = "unlock"]
    /\ UNCHANGED <<pvars, xvars, extras, bvars, skind, smu, sarg, sret, sdone, sfloor, sceil,
                   got, sbudget>>

\* Set returns after the deferred s.mu.Unlock().
SetReturn(g) ==
    /\ spc[g] = "unlock"
    /\ smu' = [smu EXCEPT !.w = 0]
    /\ LET n == Len(sets)
       IN  sdone' = [any |-> Max(sdone.any, n),
                     ok |-> IF sets[n].ok THEN Max(sdone.ok, n) ELSE sdone.ok]
    /\ spc' = [spc EXCEPT ![g] = "idle"]
    /\ UNCHANGED <<pvars, xvars, extras, bvars, skind, sservers, sarg, sret, sets, sfloor,
                   sceil, got, sbudget>>

\* No node store is used.
StoreOff ==
    /\ skind = "off"
    /\ sservers = <<>>
    /\ smu = [w |-> 0, r |-> {}]
    /\ spc = [g \in SG |-> "idle"]
    /\ sarg = [g \in SG |-> <<>>]
    /\ sret = [g \in SG |-> <<>>]
    /\ sets = <<>>
    /\ sdone = [any |-> 0, ok |-> 0]
    /\ sfloor = [g \in SG |-> [any |-> 0, ok |-> 0]]
    /\ sceil = [g \in SG |-> 0]
    /\ got = [g \in SG |-> NoList]
    /\ sbudget = 0

\* NewInmemNodeStore, NewYamlNodeStore: the list is empty, or the one of the
\* YAML file, which is the first of sets.
InitStore ==
    /\ skind \in {"inmem", "yaml"}
    /\ sservers \in IF skind = "yaml" THEN NodeLists ELSE {<<>>}
    /\ smu = [w |-> 0, r |-> {}]
    /\ spc = [g \in SG |-> "idle"]
    /\ sarg = [g \in SG |-> <<>>]
    /\ sret = [g \in SG |-> <<>>]
    /\ sets = <<[list |-> sservers, ok |-> TRUE, by |-> 0]>>
    /\ sdone = [any |-> 1, ok |-> 1]
    /\ sfloor = [g \in SG |-> [any |-> 0, ok |-> 0]]
    /\ sceil = [g \in SG |-> 0]
    /\ got = [g \in SG |-> NoList]
    /\ sbudget = MaxStoreOps

(***************************************************************************)
(* DatabaseNodeStore, as DefaultNodeStore creates it: a table with one     *)
(* UNIQUE column and a database handle with one connection.                *)
(***************************************************************************)
\* The addresses of a list.
Range(l) == {l[i] : i \in 1..Len(l)}

\* The lists the table can hold: no address twice.
UniqueLists == {l \in NodeLists : Cardinality(Range(l)) = Len(l)}

\* A Get that has not returned.
NoGet == [servers |-> <<>>, err |-> "none", prev |-> "none"]

\* A rollback that keeps what the transaction did (mutant of Rollback).
RollbackKeeps(t, w) == w

\* tx.Rollback(): the table t is as before the transaction, whose rows w are
\* dropped.
Rollback(t, w) == t

\* A call of Get or Set returns error e before its transaction has begun.
DbFail(g, e) ==
    /\ derr' = [derr EXCEPT ![g] = e]
    /\ dpc' = [dpc EXCEPT ![g] = "idle"]

\* Set rolls its transaction back and returns error e.
DbSetAbort(g, e) ==
    /\ table' = Rollback(table, work)
    /\ work' = <<>>
    /\ conn' = 0
    /\ lastSet' = e
    /\ DbFail(g, e)

\* A goroutine calls Get.
DbGetBegin(g) ==
    /\ dpc[g] = "idle"
    /\ dbudget > 0
    /\ dbudget' = dbudget - 1
    /\ dpc' = [dpc EXCEPT ![g] = "gbegin"]
    /\ dgot' = [dgot EXCEPT ![g] = NoGet]
    /\ derr' = [derr EXCEPT ![g] = "none"]
    /\ UNCHANGED <<pvars, xvars, extras, nvars, table, conn, work, darg, dpos, lastOk,
                   lastSet>>

\* d.db.Begin() in Get: it fails, or it has the connection once that is free.
DbGetTx(g) ==
    /\ dpc[g] = "gbegin"
    /\ \/ /\ dgot' = [dgot EXCEPT ![g] = [NoGet EXCEPT !.err = "begin"]]
          /\ dpc' = [dpc EXCEPT ![g] = "idle"]
          /\ UNCHANGED <<conn, work>>
       \/ /\ conn = 0
          /\ conn' = g
          /\ work' = table
          /\ dpc' = [dpc EXCEPT ![g] = "query"]
          /\ UNCHANGED dgot
    /\ UNCHANGED <<pvars, xvars, extras, nvars, table, darg, dpos, derr, lastOk, lastSet,
                   dbudget>>

\* tx.QueryContext and the loop over the rows in Get, then the deferred
\* rows.Close() and tx.Rollback(), and the return.
DbGetQuery(g) ==
    /\ dpc[g] = "query"
    /\ \/ dgot' = [dgot EXCEPT ![g] = [NoGet EXCEPT !.err = "query"]]
       \/ dgot' = [dgot EXCEPT ![g] =
                       [servers |-> work, err |-> "nil", prev |-> lastSet]]
    /\ table' = Rollback(table, work)
    /\ work' = <<>>
    /\ conn' = 0
    /\ dpc' = [dpc EXCEPT ![g] = "idle"]
    /\ UNCHANGED <<pvars, xvars, extras, nvars, darg, dpos, derr, lastOk, lastSet,
                   dbudget>>

\* A goroutine calls Set with a list.
DbSetBegin(g) ==
    /\ dpc[g] = "idle"
    /\ dbudget > 0
    /\ dbudget' = dbudget - 1
    /\ \E l \in NodeLists : darg' = [darg EXCEPT ![g] = l]
    /\ dpc' = [dpc EXCEPT ![g] = "sbegin"]
    /\ derr' = [derr EXCEPT ![g] = "none"]
    /\ UNCHANGED <<pvars, xvars, extras, nvars, table, conn, work, dpos, dgot, lastOk,
                   lastSet>>

\* d.db.Begin() in Set.
DbSetTx(g) ==
    /\ dpc[g] = "sbegin"
    /\ \/ /\ DbFail(g, "begin")
          /\ lastSet' = "begin"
          /\ UNCHANGED <<conn, work>>
       \/ /\ conn = 0
          /\ conn' = g
          /\ work' = table
          /\ dpc' = [dpc EXCEPT ![g] = "delete"]
          /\ UNCHANGED <<derr, lastSet>>
    /\ UNCHANGED <<pvars, xvars, extras, nvars, table, darg, dpos, dgot, lastOk,
                   dbudget>>

\* "DELETE FROM" in Set.
DbSetDelete(g) ==
    /\ dpc[g] = "delete"
    /\ \/ DbSetAbort(g, "delete")
       \/ /\ work' = <<>>
          /\ dpc' = [dpc EXCEPT ![g] = "prepare"]
          /\ UNCHANGED <<table, conn, derr, lastSet>>
    /\ UNCHANGED <<pvars, xvars, extras, nvars, darg, dpos, dgot, lastOk, dbudget>>

\* tx.PrepareContext in Set.
DbSetPrepare(g) ==
    /\ dpc[g] = "prepare"
    /\ \/ /\ DbSetAbort(g, "prepare")
          /\ UNCHANGED dpos
       \/ /\ dpos' = [dpos EXCEPT ![g] = 1]
          /\ dpc' = [dpc EXCEPT ![g] = "insert"]
          /\ UNCHANGED <<table, conn, work, derr, lastSet>>
    /\ UNCHANGED <<pvars, xvars, extras, nvars, darg, dgot, lastOk, dbudget>>

\* One turn of the loop over servers in Set: stmt.ExecContext fails, always
\* so for an address the table has, or it adds the row.
DbSetInsert(g) ==
    /\ dpc[g] = "insert"
    /\ dpos[g] <= Len(darg[g])
    /\ \/ /\ DbSetAbort(g, "insert")
          /\ UNCHANGED dpos
       \/ IF darg[g][dpos[g]] \in Range(work)
            THEN /\ DbSetAbort(g, "UNIQUE")
                 /\ UNCHANGED dpos
            ELSE /\ work' = Append(work, darg[g][dpos[g]])
                 /\ dpos' = [dpos EXCEPT ![g] = @ + 1]
                 /\ UNCHANGED <<table, conn, dpc, derr, lastSet>>
    /\ UNCHANGED <<pvars, xvars, extras, nvars, darg, dgot, lastOk, dbudget>>

\* tx.Commit() after the loop in Set, and the return.
DbSetCommit(g) ==
    /\ dpc[g] = "insert"
    /\ dpos[g] > Len(darg[g])
    /\ \/ /\ DbSetAbort(g, "commit")
          /\ UNCHANGED lastOk
       \/ /\ table' = work
          /\ work' = <<>>
          /\ conn' = 0
          /\ lastOk' = darg[g]
          /\ lastSet' = "nil"
          /\ DbFail(g, "nil")
    /\ UNCHANGED <<pvars, xvars, extras, nvars, darg, dpos, dgot, dbudget>>

\* No DatabaseNodeStore is used.
DbOff ==
    /\ table = <<>>
    /\ conn = 0
    /\ work = <<>>
    /\ dpc = [g \in SG |-> "idle"]
    /\ darg = [g \in SG |-> <<>>]
    /\ dpos = [g \in SG |-> 0]
    /\ derr = [g \in SG |-> "none"]
    /\ dgot = [g \in SG |-> NoGet]
    /\ lastOk = <<>>
    /\ lastSet = "none"
    /\ dbudget = 0

\* DefaultNodeStore: the table is new, or holds the rows of an earlier Set.
InitDb ==
    /\ table \in UniqueLists
    /\ conn = 0
    /\ work = <<>>
    /\ dpc = [g \in SG |-> "idle"]
    /\ darg = [g \in SG |-> <<>>]
    /\ dpos = [g \in SG |-> 0]
    /\ derr = [g \in SG |-> "none"]
    /\ dgot = [g \in SG |-> NoGet]
    /\ lastOk = table
    /\ lastSet = "none"
    /\ dbudget = MaxStoreOps

(***************************************************************************)
(* driverError.                                                            *)
(***************************************************************************)
\* Error codes of the driver package.
ErrBusy == 5
ErrBusyRecovery == 5 + 1 * 256
ErrBusySnapshot == 5 + 2 * 256
errIoErr == 10
errIoErrNotLeader == errIoErr + 40 * 256
errIoErrLeadershipLost == errIoErr + 41 * 256
errNotFound == 12
errIoErrNotLeaderLegacy == errIoErr + 32 * 256
errIoErrLeadershipLostLegacy == errIoErr + 33 * 256

\* Codes a server failure may carry: 0, the codes above, and SQLite codes
\* the driver does not name (1 SQLITE_ERROR, 19 SQLITE_CONSTRAINT, 2067
\* SQLITE_CONSTRAINT_UNIQUE, 266 SQLITE_IOERR_READ).
FailureCodes ==
    {0, 1, 19, 266, 2067, ErrBusy, ErrBusyRecovery, ErrBusySnapshot, errIoErr,
     errIoErrNotLeader, errIoErrLeadershipLost, errNotFound,
     errIoErrNotLeaderLegacy, errIoErrLeadershipLostLegacy}

Descriptions == {"", "UNIQUE constraint failed: test.n"}

\* The errors of a chain: a syscall.Errno (zero or not), a *net.OpError, a
\* protocol.ErrRequest decoded from a failure response, io.EOF, or another.
ChainErrors ==
    [kind : {"Errno", "Errno0", "OpError", "EOF", "other"}, code : {0},
     desc : {""}]
      \cup [kind : {"ErrRequest"}, code : FailureCodes, desc : Descriptions]

\* An error with up to MaxWraps errors wrapped around it.
Chains == UNION {[1..n -> ChainErrors] : n \in 1..(MaxWraps + 1)}

\* errors.As(err, &target): the first error of the chain of that kind.
As(chain, kinds) ==
    LET at == {i \in 1..Len(chain) : chain[i].kind \in kinds}
    IN  IF at = {} THEN [kind |-> "none", code |-> 0, desc |-> ""]
        ELSE chain[CHOOSE i \in at : \A j \in at : i <= j]

ErrBadConn == [kind |-> "ErrBadConn", code |-> 0, message |-> ""]

\* driverError has not returned.
NotReturned == [kind |-> "none", code |-> 0, message |-> ""]

\* A switch without the case errNotFound (mutant of BadConnCodes).
BadConnCodesLeaderOnly ==
    {errIoErrNotLeaderLegacy, errIoErrLeadershipLostLegacy, errIoErrNotLeader,
     errIoErrLeadershipLost}

\* The codes for which the switch of driverError returns driver.ErrBadConn.
BadConnCodes ==
    {errIoErrNotLeaderLegacy, errIoErrLeadershipLostLegacy, errIoErrNotLeader,
     errIoErrLeadershipLost, errNotFound}

\* A default case that returns the Error also for code 0 (mutant of
\* ZeroCode).
ZeroCodeNever(code) == FALSE

\* "if pErr.Code == 0" in the default case.
ZeroCode(code) == code = 0

driverError(chain) ==
    LET errno == As(chain, {"Errno", "Errno0"})
        opErr == As(chain, {"OpError"})
        pErr == As(chain, {"ErrRequest"})
    IN  IF errno.kind = "Errno" THEN ErrBadConn
        ELSE IF opErr.kind = "OpError" THEN ErrBadConn
        ELSE IF pErr.kind = "ErrRequest"
          THEN IF pErr.code \in BadConnCodes THEN ErrBadConn
               ELSE IF ZeroCode(pErr.code) THEN ErrBadConn
               ELSE [kind |-> "Error", code |-> pErr.code,
                     message |-> pErr.desc]
        ELSE IF As(chain, {"EOF"}).kind = "EOF" THEN ErrBadConn
        ELSE [kind |-> "err", code |-> 0, message |-> ""]

\* driverError is called on the error of a request and returns.
DriverError ==
    /\ callErr # <<>>
    /\ drvErr = NotReturned
    /\ drvErr' = driverError(callErr)
    /\ UNCHANGED <<pvars, xvars, nvars, bvars, restDriverError, callErr>>

DriverErrorOff == callErr = <<>> /\ drvErr = NotReturned

InitDriverError == callErr \in Chains /\ drvErr = NotReturned

(***************************************************************************)
(* Rows of the driver package: Next and ColumnTypeDatabaseTypeName.        *)
(***************************************************************************)
ColumnTypeNames == {"INTEGER", "TEXT"}

\* The rows of a result set of one column: row n of the server's order, with
\* the type of its value.
ResultSets ==
    UNION {{[i \in 1..n |-> [n |-> i, type |-> t[i]]] :
              t \in [1..n -> ColumnTypeNames]} : n \in 0..MaxRows}

\* The ways the server cuts a result set into the parts it sends: each part
\* but the last has a row and ends with the marker of more to come.
RECURSIVE PartsOf(_, _)
PartsOf(rs, k) ==
    {<<[rows |-> rs, more |-> FALSE]>>}
      \cup IF k = 1 THEN {}
           ELSE UNION {{<<[rows |-> SubSeq(rs, 1, c), more |-> TRUE]>> \o p :
                          p \in PartsOf(SubSeq(rs, c + 1, Len(rs)), k - 1)} :
                       c \in 1..Len(rs)}

\* r.types before ColumnTypeDatabaseTypeName has assigned it.
NilTypes == [set |-> FALSE, names |-> <<>>]

\* r.rows.Next(dest) on the response part in the buffer: the next row, or
\* ErrRowsPart or io.EOF at the marker that ends the part.
RowsNextOf(part, pos) ==
    IF pos <= Len(part.rows) THEN "row"
    ELSE IF part.more THEN "ErrRowsPart" ELSE "EOF"

\* r.rows.ColumnTypes() on the response part in the buffer: the type names of
\* the row at the cursor, or none and an error at the marker.
ColumnTypes(part, pos) ==
    IF pos <= Len(part.rows)
      THEN [names |-> <<part.rows[pos].type>>, err |-> "nil"]
      ELSE [names |-> <<>>, err |-> RowsNextOf(part, pos)]

\* A ColumnTypeDatabaseTypeName that reads the types at every call (mutant of
\* TypesUnset).
TypesUnsetAlways(t) == TRUE

\* "if r.types == nil" in ColumnTypeDatabaseTypeName.
TypesUnset(t) == ~t.set

\* A Next that, after More, starts again with the row at the cursor of the
\* part before (mutant of FirstRow).
FirstRowKept(pos) == pos

\* The cursor of the Rows that DecodeRows makes of a response.
FirstRow(pos) == 1

\* Rows.Next finds a row at the cursor.
RowsNextRow ==
    /\ rstate = "open"
    /\ RowsNextOf(rbuf, rpos) = "row"
    /\ rout' = Append(rout, rbuf.rows[rpos].n)
    /\ rpos' = rpos + 1
    /\ UNCHANGED <<pvars, xvars, nvars, bvars, restRows, rsent, rserver, rbuf, rstate,
                   consumed, types, named>>

\* Rows.Next finds io.EOF at the cursor.
RowsNextEOF ==
    /\ rstate = "open"
    /\ RowsNextOf(rbuf, rpos) = "EOF"
    /\ consumed' = TRUE
    /\ rstate' = "EOF"
    /\ UNCHANGED <<pvars, xvars, nvars, bvars, restRows, rsent, rserver, rbuf, rpos,
                   rout, types, named>>

\* Rows.Next finds ErrRowsPart at the cursor: r.protocol.More, DecodeRows and
\* r.rows.Next on the new Rows.
RowsNextMore ==
    /\ rstate = "open"
    /\ RowsNextOf(rbuf, rpos) = "ErrRowsPart"
    /\ \/ /\ rstate' = "error"
          /\ UNCHANGED <<rsent, rserver, rbuf, rpos, rout>>
       \/ /\ rserver # <<>>
          /\ LET part == Head(rserver)
                 pos == FirstRow(rpos)
                 next == RowsNextOf(part, pos)
             IN  /\ rsent' = rsent + 1
                 /\ rbuf' = part
                 /\ rserver' = Tail(rserver)
                 /\ rpos' = IF next = "row" THEN pos + 1 ELSE pos
                 /\ rout' = IF next = "row" /\ pos <= Len(part.rows)
                              THEN Append(rout, part.rows[pos].n) ELSE rout
                 /\ rstate' = IF next = "row" THEN "open" ELSE next
    /\ UNCHANGED <<pvars, xvars, nvars, bvars, restRows, consumed, types, named>>

\* Another request of the connection is answered into the response buffer
\* the Rows shares, after the iteration has ended.
RowsOverwritten ==
    /\ rstate \in {"EOF", "error"}
    /\ \E t \in ColumnTypeNames :
         rbuf' = [rows |-> <<[n |-> 0, type |-> t]>>, more |-> FALSE]
    /\ rbuf' # rbuf
    /\ rpos' = 1
    /\ UNCHANGED <<pvars, xvars, nvars, bvars, restRows, rsent, rserver, rout, rstate,
                   consumed, types, named>>

\* ColumnTypeDatabaseTypeName(0).
ColumnTypeDatabaseTypeName ==
    /\ rstate # "off"
    /\ Len(named) < MaxTypeCalls
    /\ LET ct == ColumnTypes(rbuf, rpos)
           t == IF TypesUnset(types) THEN [set |-> TRUE, names |-> ct.names]
                                     ELSE types
           name == IF TypesUnset(types) /\ ct.err # "nil" /\ 0 >= Len(t.names)
                     THEN ""
                     ELSE IF 0 >= Len(t.names) THEN "panic" ELSE t.names[1]
       IN  /\ types' = t
           /\ named' = Append(named, name)
    /\ UNCHANGED <<pvars, xvars, nvars, bvars, restRows, rsent, rserver, rbuf, rpos,
                   rout, rstate, consumed>>

\* The buffer holds the response of another request.
Overwritten == Len(rbuf.rows) > 0 /\ rbuf.rows[1].n = 0

\* r.rows.Close() on the response in the buffer: nil when Next has read the
\* marker that ends it, else what the marker says, io.EOF when it ends the
\* result set and ErrRowsPart when more is to come; anything when the buffer
\* holds something else than the part the Rows read.
RowsCloseOf ==
    IF rstate = "error" \/ Overwritten THEN {"nil", "EOF", "ErrRowsPart"}
    ELSE IF rstate = "EOF" THEN {"nil"}
    ELSE IF rbuf.more THEN {"ErrRowsPart"} ELSE {"EOF"}

\* Rows.Close: r.rows.Close(), then nothing if r.consumed or if it returned
\* io.EOF, and r.protocol.Interrupt otherwise.
RowsClose ==
    /\ rstate \in {"open", "EOF", "error"}
    /\ \E e \in RowsCloseOf :
         rclose' = IF consumed THEN "nothing"
                   ELSE IF e = "EOF" THEN "nothing" ELSE "Interrupt"
    /\ rstate' = "closed"
    /\ UNCHANGED <<pvars, xvars, nvars, bvars, devars, rset, rmarks, qvars, appvars,
                   msgvars, recvvars, bkvars, closeCh, rsent, rserver, rbuf,
                   rpos, rout, consumed, types, named>>

RowsOff ==
    /\ rclose = "open"
    /\ rset = <<>>
    /\ rmarks = 0
    /\ rsent = 0
    /\ rserver = <<>>
    /\ rbuf = [rows |-> <<>>, more |-> FALSE]
    /\ rpos = 1
    /\ rout = <<>>
    /\ rstate = "off"
    /\ consumed = FALSE
    /\ types = NilTypes
    /\ named = <<>>

\* QueryContext returned a Rows on the first part of the server's response.
InitRows ==
    /\ rclose = "open"
    /\ rset \in ResultSets
    /\ \E p \in PartsOf(rset, MaxRowParts) :
         rbuf = Head(p) /\ rserver = Tail(p) /\ rmarks = Len(p) - 1
    /\ rsent = 0
    /\ rpos = 1
    /\ rout = <<>>
    /\ rstate = "open"
    /\ consumed = FALSE
    /\ types = NilTypes
    /\ named = <<>>

(***************************************************************************)
(* Exec and Query of the driver package: the form of the request.          *)
(***************************************************************************)
\* len(args) as a 64-bit integer, in two halves: hi * 2^16 + lo.
ArgCounts ==
    [hi : {0}, lo : {0, 1, 2, 254, 255, 256, 257, 300, 65535}]
      \cup [hi : {1, 65535}, lo : {0, 65535}]
      \cup [hi : {65536, 131072}, lo : {0, 1, 255}]

Exceeds(a, b) == a.hi > b.hi \/ (a.hi = b.hi /\ a.lo > b.lo)

MaxUint32 == [hi |-> 65535, lo |-> 65535]

MaxUint8 == [hi |-> 0, lo |-> 255]

NoRequest == [type |-> "none", schema |-> 0, values |-> "none"]

\* The V0 encoders of request.go: the values by putNamedValues, schema 0.
EncodeV0(type) == [type |-> type, schema |-> 0, values |-> "putNamedValues"]

\* The V1 encoders of request.go: the values by putNamedValues32, schema 1.
EncodeV1(type) == [type |-> type, schema |-> 1, values |-> "putNamedValues32"]

\* A driver that takes the V1 form from 257 parameters on (mutant of
\* NeedsV1).
NeedsV1Late(n) == Exceeds(n, [hi |-> 0, lo |-> 256])

\* "len(args) > math.MaxUint8".
NeedsV1(n) == Exceeds(n, MaxUint8)

\* The body shared by Conn.ExecContext, Conn.QueryContext, Stmt.ExecContext
\* and Stmt.QueryContext: the check of the number of parameters, the encoding
\* and the Call.
ExecOrQuery(fn, type) ==
    /\ qbudget > 0
    /\ qbudget' = qbudget - 1
    /\ \E n \in ArgCounts :
         IF Exceeds(n, MaxUint32)
           THEN /\ qlast' = [op |-> fn, n |-> n, err |-> "too many parameters",
                             encoded |-> NoRequest, sent |-> FALSE]
                /\ UNCHANGED <<qrequest, qsent>>
           ELSE LET request == IF NeedsV1(n) THEN EncodeV1(type)
                                             ELSE EncodeV0(type)
                IN  /\ qrequest' = request
                    /\ \E call \in {"nil", "failed", "not sent"} :
                         /\ qsent' = IF call = "not sent" THEN qsent
                                     ELSE Append(qsent, request)
                         /\ qlast' = [op |-> fn, n |-> n,
                                      err |-> IF call = "nil" THEN "nil"
                                              ELSE "Call",
                                      encoded |-> request,
                                      sent |-> call # "not sent"]
    /\ UNCHANGED <<pvars, xvars, nvars, bvars, restExec>>

ConnExecContext == ExecOrQuery("Conn.ExecContext", "RequestExecSQL")

ConnQueryContext == ExecOrQuery("Conn.QueryContext", "RequestQuerySQL")

StmtExecContext == ExecOrQuery("Stmt.ExecContext", "RequestExec")

StmtQueryContext == ExecOrQuery("Stmt.QueryContext", "RequestQuery")

NoOp == [op |-> "none", n |-> [hi |-> 0, lo |-> 0], err |-> "nil",
         encoded |-> NoRequest, sent |-> FALSE]

ExecOff ==
    /\ qbudget = 0
    /\ qrequest = NoRequest
    /\ qsent = <<>>
    /\ qlast = NoOp

InitExec ==
    /\ qbudget = MaxQueryOps
    /\ qrequest = NoRequest
    /\ qsent = <<>>
    /\ qlast = NoOp

(***************************************************************************)
(* App of the app package: run and Ready.                                  *)
(***************************************************************************)
ReadyCallers == 1..NReady

\* The startup tasks have succeeded: the node has joined the cluster if it
\* had to, the node store holds the servers of the cluster, and the node has
\* assumed its role.
StartupDone == atasks.joined /\ atasks.stored /\ atasks.promoted

\* App.Close and App.Handover: a.stop() cancels the context of App.run.
AppStop ==
    /\ arun = "running"
    /\ ~astop
    /\ astop' = TRUE
    /\ UNCHANGED <<pvars, xvars, nvars, bvars, restApp, arun, aloops, ajoin,
                   aready, readyCh, atasks, rdpc, rdctx, rdret, rdsaw>>

\* App.run, "case <-ctx.Done()".
AppRunDone ==
    /\ arun = "running"
    /\ astop
    /\ readyCh' = (readyCh \/ ~aready)
    /\ arun' = "returned"
    /\ UNCHANGED <<pvars, xvars, nvars, bvars, restApp, astop, aloops, ajoin,
                   aready, atasks, rdpc, rdctx, rdret, rdsaw>>

\* App.run, "case <-time.After(delay)": one round of the background tasks,
\* each call of which succeeds or fails.
AppRunTasks ==
    /\ arun = "running"
    /\ aloops > 0
    /\ aloops' = aloops - 1
    /\ \E leader, add, cluster, set, promote \in BOOLEAN :
         LET joined == ~ajoin \/ add
             round == leader /\ joined /\ cluster
         IN  /\ ajoin' = IF leader THEN ajoin /\ ~add ELSE ajoin
             /\ atasks' = [joined |-> IF leader /\ ajoin /\ add THEN TRUE
                                      ELSE atasks.joined,
                           stored |-> IF round THEN set ELSE atasks.stored,
                           promoted |-> IF round /\ ~aready /\ promote
                                          THEN TRUE ELSE atasks.promoted]
             /\ aready' = (aready \/ (round /\ promote))
             /\ readyCh' = (readyCh \/ (round /\ ~aready /\ promote))
    /\ UNCHANGED <<pvars, xvars, nvars, bvars, restApp, arun, astop, rdpc,
                   rdctx, rdret, rdsaw>>

\* A caller enters App.Ready(ctx).
ReadyBegin(g) ==
    /\ rdpc[g] = "idle"
    /\ rdpc' = [rdpc EXCEPT ![g] = "select"]
    /\ UNCHANGED <<pvars, xvars, nvars, bvars, restApp, arun, astop, aloops,
                   ajoin, aready, readyCh, atasks, rdctx, rdret, rdsaw>>

\* The context given to App.Ready is cancelled or times out.
ReadyCtxDone(g) ==
    /\ ~rdctx[g]
    /\ rdpc[g] # "returned"
    /\ rdctx' = [rdctx EXCEPT ![g] = TRUE]
    /\ UNCHANGED <<pvars, xvars, nvars, bvars, restApp, arun, astop, aloops,
                   ajoin, aready, readyCh, atasks, rdpc, rdret, rdsaw>>

\* The select of App.Ready takes one of the cases that can proceed.
ReadyReturn(g) ==
    /\ rdpc[g] = "select"
    /\ \/ readyCh /\ rdret' = [rdret EXCEPT ![g] = "nil"]
       \/ rdctx[g] /\ rdret' = [rdret EXCEPT ![g] = "ctx.Err()"]
    /\ rdsaw' = [rdsaw EXCEPT ![g] = [ctx |-> rdctx[g], done |-> StartupDone]]
    /\ rdpc' = [rdpc EXCEPT ![g] = "returned"]
    /\ UNCHANGED <<pvars, xvars, nvars, bvars, restApp, arun, astop, aloops,
                   ajoin, aready, readyCh, atasks, rdctx>>

AppOff ==
    /\ arun = "off"
    /\ astop = FALSE
    /\ aloops = 0
    /\ ajoin = FALSE
    /\ aready = FALSE
    /\ readyCh = FALSE
    /\ atasks = [joined |-> FALSE, stored |-> FALSE, promoted |-> FALSE]
    /\ rdpc = [g \in ReadyCallers |-> "off"]
    /\ rdctx = [g \in ReadyCallers |-> FALSE]
    /\ rdret = [g \in ReadyCallers |-> "none"]
    /\ rdsaw = [g \in ReadyCallers |-> [ctx |-> FALSE, done |-> FALSE]]

\* app.New has started App.run, for a new node (join) or a restarted one.
InitApp ==
    /\ arun = "running"
    /\ astop = FALSE
    /\ aloops = MaxRunLoops
    /\ ajoin \in BOOLEAN
    /\ aready = FALSE
    /\ readyCh = FALSE
    /\ atasks = [joined |-> ~ajoin, stored |-> FALSE, promoted |-> FALSE]
    /\ rdpc = [g \in ReadyCallers |-> "idle"]
    /\ rdctx = [g \in ReadyCallers |-> FALSE]
    /\ rdret = [g \in ReadyCallers |-> "none"]
    /\ rdsaw = [g \in ReadyCallers |-> [ctx |-> FALSE, done |-> FALSE]]

(***************************************************************************)
(* Message of the protocol package: the body and its put and get methods.  *)
(***************************************************************************)
messageWordSize == 8

\* n equal bytes.
Repeat(byte, n) == [i \in 1..n |-> byte]

\* A body without padding (mutant of Padding).
NoPadding(offset) == <<>>

\* The bytes that pad an offset to the next word boundary.
Padding(offset) ==
    Repeat(0, (messageWordSize - (offset % messageWordSize)) % messageWordSize)

\* v as width bytes, the least significant first.
LittleEndian(v, width) ==
    [i \in 1..width |-> IF i <= 3 THEN (v \div 256^(i - 1)) % 256 ELSE 0]

\* The strings, blobs and parameters that the calls are made with.
Strings ==
    {Repeat(97, n) : n \in {0, 7, 8, 16}} \cup {<<104, 105>>}

Blobs ==
    {[i \in 1..n |-> i] : n \in {5, 8, 10}} \cup {Repeat(97, 16) \o Repeat(0, 7)}

Integer == 1
Float == 2
Text == 3
Blob == 4
Null == 5
ISO8601 == 10
Boolean == 11

NamedValuesLists ==
    { <<>>,
      <<[tag |-> Text, data |-> Repeat(97, 8)],
        [tag |-> Null, data |-> <<0>>]>>,
      <<[tag |-> Integer, data |-> <<123>>],
        [tag |-> Float, data |-> <<3>>],
        [tag |-> Boolean, data |-> <<1>>],
        [tag |-> Blob, data |-> <<1, 2, 3, 4, 5, 6>>],
        [tag |-> Text, data |-> <<104, 101, 108, 108, 111>>],
        [tag |-> Null, data |-> <<0>>],
        [tag |-> ISO8601, data |-> Repeat(48, 25)]>> }

\* The body with data written at the offset, and the offset after it.
Put(m, data) ==
    [bytes |-> [i \in 1..(IF Len(m.bytes) > m.offset + Len(data)
                            THEN Len(m.bytes) ELSE m.offset + Len(data)) |->
                  IF i > m.offset /\ i <= m.offset + Len(data)
                    THEN data[i - m.offset] ELSE m.bytes[i]],
     offset |-> m.offset + Len(data)]

putUint(m, v, width) == Put(m, LittleEndian(v, width))

putUint64(m, v) == putUint(m, v, 8)

putString(m, v) ==
    Put(m, v \o <<0>> \o Padding(m.offset + Len(v) + 1))

putBlob(m, v) ==
    Put(m, LittleEndian(Len(v), 8) \o v \o Padding(m.offset + 8 + Len(v)))

\* The payload of one parameter.
putValue(m, value) ==
    IF value.tag \in {Text, ISO8601} THEN putString(m, value.data)
    ELSE IF value.tag = Blob THEN putBlob(m, value.data)
    ELSE putUint64(m, value.data[1])

RECURSIVE putValues(_, _)
putValues(m, values) ==
    IF values = <<>> THEN m
    ELSE putValues(putValue(m, Head(values)), Tail(values))

\* putNamedValues (width 1) and putNamedValues32 (width 4): the count, one
\* tag for each parameter, the padding of the tags, the payloads.
putNamedValuesOf(m, values, width) ==
    LET tags == Put(m, LittleEndian(Len(values), width)
                         \o [i \in 1..Len(values) |-> values[i].tag])
    IN  putValues(Put(tags, Padding(tags.offset)), values)

\* ceil(offset / messageWordSize).
WordsOf(offset) == (offset + messageWordSize - 1) \div messageWordSize

\* A getString that takes the terminator for a byte of the padding (mutant of
\* Terminated).
Unterminated(index) == index

\* The bytes of a string of index bytes with its terminator.
Terminated(index) == index + 1

\* The offset padded to the next word boundary.
PaddedTo(offset) == offset + Len(Padding(offset))

\* The positions of the NUL bytes that getString can find: from the read
\* offset up to words * 8.
Terminators(m, limit) ==
    {i \in (m.offset + 1)..limit : i <= Len(m.bytes) /\ m.bytes[i] = 0}

Least(S) == CHOOSE i \in S : \A j \in S : i <= j

NoValue == [ok |-> FALSE, value |-> <<>>, offset |-> 0]

getString(m, limit) ==
    IF Terminators(m, limit) = {} THEN NoValue
    ELSE LET index == Least(Terminators(m, limit)) - 1 - m.offset
         IN  [ok |-> TRUE,
              value |-> SubSeq(m.bytes, m.offset + 1, m.offset + index),
              offset |-> PaddedTo(m.offset + Terminated(index))]

getUint64(m, limit) ==
    IF m.offset + 8 > limit \/ m.offset + 8 > Len(m.bytes) THEN NoValue
    ELSE [ok |-> TRUE,
          value |-> <<m.bytes[m.offset + 1] + 256 * m.bytes[m.offset + 2]>>,
          offset |-> m.offset + 8]

getBlob(m, limit) ==
    LET size == getUint64(m, limit)
    IN  IF ~size.ok THEN NoValue
        ELSE IF \/ size.offset + size.value[1] > limit
                \/ size.offset + size.value[1] > Len(m.bytes) THEN NoValue
        ELSE [ok |-> TRUE,
              value |-> SubSeq(m.bytes, size.offset + 1,
                               size.offset + size.value[1]),
              offset |-> PaddedTo(size.offset + size.value[1])]

Body == [bytes |-> mbytes, offset |-> moffset]

\* A put method has written: the body after it, and the record of the call.
Written(name, arg, m) ==
    /\ ~mpanic
    /\ Len(mops) < MaxMsgOps
    /\ Len(m.bytes) <= MaxBody
    /\ mbytes' = m.bytes
    /\ moffset' = m.offset
    /\ mops' = Append(mops, [op |-> name, arg |-> arg, before |-> moffset,
                             after |-> m.offset])
    /\ UNCHANGED <<pvars, xvars, nvars, bvars, restMessage, mheader, mgot,
                   mpanic>>

PutUint == \E width \in {1, 4} : Written("putUint", <<width>>, putUint(Body, 1, width))

PutString == \E v \in Strings : Written("putString", v, putString(Body, v))

PutBlob == \E v \in Blobs : Written("putBlob", v, putBlob(Body, v))

PutNamedValues ==
    \E v \in NamedValuesLists :
        Written("putNamedValues", <<Len(v)>>, putNamedValuesOf(Body, v, 1))

PutNamedValues32 ==
    \E v \in NamedValuesLists :
        Written("putNamedValues32", <<Len(v)>>, putNamedValuesOf(Body, v, 4))

\* putHeader(mtype, schema): the body padded to whole words, and the header.
PutHeader ==
    /\ ~mpanic
    /\ Len(mops) < MaxMsgOps
    /\ \E schema \in {0, 1} :
         mheader' = [words |-> WordsOf(moffset), mtype |-> 0,
                     schema |-> schema, flags |-> 0]
    /\ LET m == Put(Body, Padding(moffset))
       IN  /\ mbytes' = m.bytes
           /\ moffset' = m.offset
           /\ mops' = Append(mops, [op |-> "putHeader",
                                    arg |-> <<mheader'.words>>,
                                    before |-> moffset, after |-> m.offset])
    /\ UNCHANGED <<pvars, xvars, nvars, bvars, restMessage, mgot, mpanic>>

Rewind ==
    /\ ~mpanic
    /\ Len(mops) < MaxMsgOps
    /\ moffset' = 0
    /\ mops' = Append(mops, [op |-> "Rewind", arg |-> <<>>,
                             before |-> moffset, after |-> 0])
    /\ UNCHANGED <<pvars, xvars, nvars, bvars, restMessage, mbytes, mheader,
                   mgot, mpanic>>

\* A get method has read, or has found nothing to read before words * 8.
Read(name, res) ==
    /\ ~mpanic
    /\ Len(mops) < MaxMsgOps
    /\ mgot' = res.value
    /\ mpanic' = ~res.ok
    /\ moffset' = IF res.ok THEN res.offset ELSE moffset
    /\ mops' = Append(mops, [op |-> name, arg |-> res.value,
                             before |-> moffset, after |-> moffset'])
    /\ UNCHANGED <<pvars, xvars, nvars, bvars, restMessage, mbytes, mheader>>

GetString == Read("getString", getString(Body, mheader.words * messageWordSize))

GetBlob == Read("getBlob", getBlob(Body, mheader.words * messageWordSize))

GetUint64 == Read("getUint64", getUint64(Body, mheader.words * messageWordSize))

NoHeader == [words |-> 0, mtype |-> 0, schema |-> 0, flags |-> 0]

MessageOff ==
    /\ mbytes = <<>>
    /\ moffset = 0
    /\ mheader = NoHeader
    /\ mops = <<>>
    /\ mgot = <<>>
    /\ mpanic = FALSE

\* A Message after reset: new, or with the bytes of the message before.
InitMessage ==
    /\ mbytes \in {Repeat(0, 16), Repeat(120, 32)}
    /\ moffset = 0
    /\ mheader = NoHeader
    /\ mops = <<>>
    /\ mgot = <<>>
    /\ mpanic \in {FALSE}

(***************************************************************************)
(* recvHeader and recvBody of the Protocol: the growth of the response     *)
(* buffer.                                                                 *)
(***************************************************************************)
\* len(res.body.Bytes) as the callers of Message.Init make it.
InitialSizes == {8, 16, 512, 4096}

\* The headers a server sends: words (a uint32; int has 64 bits, so that
\* int(res.words) * messageWordSize does not wrap), type, schema and flags.
Headers ==
    [words : {0, 1, 2, 3, 64, 65, 513, 1025, 100000}, mtype : {0, 7},
     schema : {0, 1}, extra : {0}]

\* A recvBody that grows the buffer by one word at a time (mutant of Grown).
GrownByWord(len) == len + messageWordSize

\* "make([]byte, len(res.body.Bytes)*2)".
Grown(len) == len * 2

\* recvHeader: the header is read and decoded.
RecvHeaderOf ==
    /\ recvpc = "idle"
    /\ recvs > 0
    /\ recvs' = recvs - 1
    /\ \E h \in Headers : reshdr' = h
    /\ resn' = 0
    /\ rescap0' = rescap
    /\ recvpc' = "recvBody"
    /\ foffset' = 0
    /\ fi' = 0
    /\ fempty' = 0
    /\ recverr' = "nil"
    /\ UNCHANGED <<pvars, xvars, nvars, bvars, restRecv, rescap, fshort>>

\* recvBody: "n := int(res.words) * messageWordSize".
RecvBodyBegin ==
    /\ recvpc = "recvBody"
    /\ resn' = reshdr.words * messageWordSize
    /\ recvpc' = "for"
    /\ UNCHANGED <<pvars, xvars, nvars, bvars, restRecv, recvs, reshdr, rescap,
                   rescap0, fillvars>>

\* recvBody: one round of "for n > len(res.body.Bytes)".
GrowBuffer ==
    /\ recvpc = "for"
    /\ resn > rescap
    /\ rescap' = Grown(rescap)
    /\ UNCHANGED <<pvars, xvars, nvars, bvars, restRecv, recvs, reshdr, resn,
                   rescap0, recvpc, fillvars>>

\* recvBody after the loop: recvPeek(res.body.Bytes[:n]) is entered.
RecvBodyPeek ==
    /\ recvpc = "for"
    /\ resn <= rescap
    /\ recvpc' = "peek"
    /\ foffset' = 0
    /\ fi' = 0
    /\ fempty' = 0
    /\ recverr' = "nil"
    /\ UNCHANGED <<pvars, xvars, nvars, bvars, restRecv, recvs, reshdr, resn,
                   rescap, rescap0, fshort>>

\* What one conn.Read into a buffer of rem bytes may return as n: nothing, all
\* of it, or a part of it.
ReadSizes(rem) ==
    {0, rem} \cup (IF fshort < MaxShortReads /\ rem > 1 THEN {1} ELSE {})

\* What conn.Read may return as err.
ReadErrors == {"nil", "EOF", "OpTimeout"}

\* A loop of recvFill that does not count its reads (mutant of Decrement).
DecrementNever(i) == i

\* "i--" in the loop of recvFill.
Decrement(i) == i - 1

\* recvPeek: "offset < len(buf)" is false, the buffer is full.
RecvPeekDone ==
    /\ recvpc = "peek"
    /\ ~(foffset < resn)
    /\ recvpc' = "idle"
    /\ UNCHANGED <<pvars, xvars, nvars, bvars, restRecv, recvs, reshdr, resn,
                   rescap, rescap0, fillvars>>

\* recvPeek calls recvFill(buf[offset:]): "i := messageMaxConsecutiveEmptyReads".
RecvFillBegin ==
    /\ recvpc = "peek"
    /\ foffset < resn
    /\ recvpc' = "fill"
    /\ fi' = messageMaxConsecutiveEmptyReads
    /\ fempty' = 0
    /\ UNCHANGED <<pvars, xvars, nvars, bvars, restRecv, recvs, reshdr, resn,
                   rescap, rescap0, foffset, fshort, recverr>>

\* One round of the loop of recvFill: conn.Read returns n and err; an error
\* ends the receive, n > 0 goes back to recvPeek, which adds it to offset,
\* and an empty read goes to the next round.
ConnRead ==
    /\ recvpc = "fill"
    /\ fi > 0
    /\ \E n \in ReadSizes(resn - foffset), e \in ReadErrors :
         IF e # "nil"
           THEN /\ recverr' = e
                /\ recvpc' = "idle"
                /\ UNCHANGED <<foffset, fi, fempty, fshort>>
           ELSE IF n > 0
             THEN /\ foffset' = foffset + n
                  /\ fshort' = IF n < resn - foffset THEN fshort + 1 ELSE fshort
                  /\ recvpc' = "peek"
                  /\ UNCHANGED <<fi, fempty, recverr>>
             ELSE /\ fi' = Decrement(fi)
                  /\ fempty' = fempty + 1
                  /\ UNCHANGED <<recvpc, foffset, fshort, recverr>>
    /\ UNCHANGED <<pvars, xvars, nvars, bvars, restRecv, recvs, reshdr, resn,
                   rescap, rescap0>>

\* recvFill after its loop: "return -1, io.ErrNoProgress", which recvPeek and
\* recvBody return.
RecvFillNoProgress ==
    /\ recvpc = "fill"
    /\ ~(fi > 0)
    /\ recverr' = "ErrNoProgress"
    /\ recvpc' = "idle"
    /\ UNCHANGED <<pvars, xvars, nvars, bvars, restRecv, recvs, reshdr, resn,
                   rescap, rescap0, foffset, fi, fempty, fshort>>

RecvOff ==
    /\ recvpc = "off"
    /\ recvs = 0
    /\ reshdr = [words |-> 0, mtype |-> 0, schema |-> 0, extra |-> 0]
    /\ resn = 0
    /\ rescap = 0
    /\ rescap0 = 0
    /\ foffset = 0
    /\ fi = 0
    /\ fempty = 0
    /\ fshort = 0
    /\ recverr = "nil"

InitRecv ==
    /\ recvpc = "idle"
    /\ recvs = MaxRecvs
    /\ reshdr = [words |-> 0, mtype |-> 0, schema |-> 0, extra |-> 0]
    /\ resn = 0
    /\ rescap \in InitialSizes
    /\ rescap0 = rescap
    /\ foffset = 0
    /\ fi = 0
    /\ fempty = 0
    /\ fshort = 0
    /\ recverr = "nil"

(***************************************************************************)
(* makeRetryStrategies: the strategy that sleeps before a retry.          *)
(* time.Duration is a signed integer of 64 bits; the model gives it        *)
(* DurationBits bits, and the arithmetic wraps as Go's does.               *)
(***************************************************************************)
MaxDuration == 2 ^ (DurationBits - 1) - 1
MinDuration == 0 - 2 ^ (DurationBits - 1)

\* An integer as time.Duration holds it.
Wrap(x) ==
    LET m == x % (2 ^ DurationBits)
    IN  IF m > MaxDuration THEN m - 2 ^ DurationBits ELSE m

\* time.Duration(math.Pow(2, float64(attempt))): a power that time.Duration
\* does not hold converts to a value that depends on the implementation, the
\* least Duration on some processors and the greatest on others.
Pow2(a) ==
    IF 2 ^ a <= MaxDuration THEN {2 ^ a}
                                  ELSE {MinDuration, MaxDuration}

\* backoff.BinaryExponential(factor)(attempt): "factor * time.Duration(...)",
\* for each value the conversion can have.
BinaryExponential(factor, a) ==
    {Wrap(factor * c) : c \in Pow2(a)}

\* "if duration > cap || duration <= 0 { duration = cap }".
Capped(duration, cap) ==
    IF duration > cap \/ duration <= 0 THEN cap ELSE duration

\* The strategy is called with the next attempt: it sleeps if attempt > 0 and
\* returns true.
BackoffStrategy ==
    /\ bkattempt <= MaxBackoffAttempt
    /\ IF bkattempt > 0
         THEN \E duration \in BinaryExponential(bkfactor, bkattempt) :
                bkslept' = [attempt |-> bkattempt,
                            slept |-> Capped(duration, bkcap)]
         ELSE bkslept' = [attempt |-> bkattempt, slept |-> 0]
    /\ bkattempt' = bkattempt + 1
    /\ UNCHANGED <<pvars, xvars, nvars, bvars, restBackoff, bkfactor, bkcap>>

NoSleep == [attempt |-> 0 - 1, slept |-> 0]

BackoffOff ==
    /\ bkfactor = 0
    /\ bkcap = 0
    /\ bkattempt = 0
    /\ bkslept = NoSleep

\* A Connector with a factor and a cap, both positive, before the first pass.
InitBackoff ==
    /\ bkfactor \in 1..MaxFactor
    /\ bkcap \in Caps
    /\ bkattempt = 0
    /\ bkslept = NoSleep

\* The parts that are not in use, the one named being in use.
ExtrasOff(on) ==
    /\ IF on = "driverError" THEN TRUE ELSE DriverErrorOff
    /\ IF on = "Rows" THEN TRUE ELSE RowsOff
    /\ IF on = "Exec" THEN TRUE ELSE ExecOff
    /\ IF on = "App" THEN TRUE ELSE AppOff
    /\ IF on = "Message" THEN TRUE ELSE MessageOff
    /\ IF on = "recv" THEN TRUE ELSE RecvOff
    /\ IF on = "Backoff" THEN TRUE ELSE BackoffOff
    /\ closeCh = "open"

(***************************************************************************)
(* Initial states and specifications.                                      *)
(***************************************************************************)
InitConnector ==
    /\ ctxDone = FALSE
    /\ attempt = 0
    /\ delay = 0
    /\ retryErr = "nil"
    /\ protocol = NilConn
    /\ servers = <<>>
    /\ idx = 0
    /\ version = VersionOne
    /\ hop = "none"
    /\ target = NoAddress
    /\ one = NoOne
    /\ cinfo = NoInfo
    /\ from = NilConn
    /\ open = {}
    /\ probed = <<>>
    /\ passes = 0
    /\ result = NoResult

\* No Connect runs.
ConnectorOff ==
    /\ store = <<>> /\ retryLimit = 0 /\ cpc = "off" /\ InitConnector
    /\ StoreOff /\ DbOff /\ ExtrasOff("none")

(***************************************************************************)
(* Specifications of the Protocol.                                         *)
(***************************************************************************)
InitProtocol ==
    /\ mu = 0
    /\ netErr = "nil"
    /\ connDeadline = "none"
    /\ connClosed = FALSE
    /\ peer = "up"
    /\ wire = <<>>
    /\ inbox = <<>>
    /\ srvPos = 0
    /\ srvQuery = [id |-> 0, left |-> 0]
    /\ pc = [g \in G |-> "idle"]
    /\ op = [g \in G |-> "none"]
    /\ req = [g \in G |-> NoReq]
    /\ err = [g \in G |-> "nil"]
    /\ resp = [g \in G |-> NoResp]
    /\ rows = [g \in G |-> NoRows]
    /\ drained = FALSE
    /\ abandoned = {}
    /\ nextId = 1
    /\ expired = {}

\* Several goroutines share the Protocol.
Init == callers = G /\ budget = MaxOps /\ InitProtocol /\ ConnectorOff

\* One goroutine at a time uses the Protocol, as database/sql uses a driver.Conn.
InitSession ==
    callers = {1} /\ budget = MaxSessionOps /\ InitProtocol /\ ConnectorOff

Next ==
    \/ \E g \in G : CallBegin(g)
    \/ \E g \in G : InterruptBegin(g)
    \/ \E g \in G : MoreBegin(g)
    \/ \E g \in G : CtxDeadlinePasses(g)
    \/ \E g \in G : CallLock(g)
    \/ \E g \in G : InterruptLock(g)
    \/ \E g \in G : SendHeader(g)
    \/ \E g \in G : SendBody(g)
    \/ \E g \in G : RecvHeader(g)
    \/ \E g \in G : RecvBody(g)
    \/ \E g \in G : Return(g)
    \/ \E g \in G : Unlock(g)
    \/ Close
    \/ DeadlineExpires
    \/ PeerClose
    \/ PeerReset
    \/ ServerHandle
    \/ ServerSendPart

Spec == Init /\ [][Next]_vars

SpecSession == InitSession /\ [][Next]_vars

\* The steps of a goroutine inside Call, More and Interrupt: the Go scheduler
\* runs every goroutine that can take a step.  Nothing obliges the server or
\* the peer to act.
GoStep(g) ==
    \/ CallLock(g)
    \/ InterruptLock(g)
    \/ SendHeader(g)
    \/ SendBody(g)
    \/ RecvHeader(g)
    \/ RecvBody(g)
    \/ Return(g)
    \/ Unlock(g)

SpecFair == Spec /\ \A g \in G : WF_vars(GoStep(g))

\* One Connect, for any store and any RetryLimit up to the bounds; the
\* Protocol it returns is not used.
InitConnect ==
    /\ callers = {} /\ budget = 0 /\ InitProtocol
    /\ store \in Stores
    /\ retryLimit \in 0..MaxRetryLimit
    /\ cpc = "retry"
    /\ InitConnector
    /\ StoreOff /\ DbOff /\ ExtrasOff("none")

NextConnect ==
    \/ RetryLoop
    \/ Sleeping
    \/ BackoffDone
    \/ Select
    \/ GetServers
    \/ Dial
    \/ Handshake
    \/ LeaderCall
    \/ ClientCall
    \/ AfterOne
    \/ CheckCtx
    \/ CtxCancel

SpecConnect == InitConnect /\ [][NextConnect]_vars

\* The steps of Connect itself: each ends, as Dial and the Calls have
\* timeouts and the backoff sleeps for at most BackoffCap.
ConnectStep ==
    \/ RetryLoop
    \/ Sleeping
    \/ BackoffDone
    \/ Select
    \/ GetServers
    \/ Dial
    \/ Handshake
    \/ LeaderCall
    \/ ClientCall
    \/ AfterOne
    \/ CheckCtx

SpecConnectFair == SpecConnect /\ WF_vars(ConnectStep)

InitNodeStore ==
    /\ callers = {} /\ budget = 0 /\ InitProtocol
    /\ store = <<>> /\ retryLimit = 0 /\ cpc = "off" /\ InitConnector
    /\ InitStore /\ DbOff /\ ExtrasOff("none")

NextNodeStore ==
    \E g \in SG :
        \/ GetBegin(g)
        \/ GetRLock(g)
        \/ GetMake(g)
        \/ GetCopy(g)
        \/ GetReturn(g)
        \/ SetBegin(g)
        \/ SetLock(g)
        \/ SetStore(g)
        \/ SetReturn(g)

SpecNodeStore == InitNodeStore /\ [][NextNodeStore]_vars

InitDatabaseStore ==
    /\ callers = {} /\ budget = 0 /\ InitProtocol
    /\ store = <<>> /\ retryLimit = 0 /\ cpc = "off" /\ InitConnector
    /\ StoreOff /\ InitDb /\ ExtrasOff("none")

NextDatabaseStore ==
    \E g \in SG :
        \/ DbGetBegin(g)
        \/ DbGetTx(g)
        \/ DbGetQuery(g)
        \/ DbSetBegin(g)
        \/ DbSetTx(g)
        \/ DbSetDelete(g)
        \/ DbSetPrepare(g)
        \/ DbSetInsert(g)
        \/ DbSetCommit(g)

SpecDatabaseStore == InitDatabaseStore /\ [][NextDatabaseStore]_vars

\* No Protocol, no Connector and no node store is in use.
BaseOff ==
    /\ callers = {} /\ budget = 0 /\ InitProtocol
    /\ store = <<>> /\ retryLimit = 0 /\ cpc = "off" /\ InitConnector
    /\ StoreOff /\ DbOff

InitDriverErrorSpec ==
    BaseOff /\ ExtrasOff("driverError") /\ InitDriverError

NextDriverError == DriverError

SpecDriverError == InitDriverErrorSpec /\ [][NextDriverError]_vars

InitRowsSpec == BaseOff /\ ExtrasOff("Rows") /\ InitRows

NextRows ==
    \/ RowsNextRow
    \/ RowsNextEOF
    \/ RowsNextMore
    \/ RowsOverwritten
    \/ ColumnTypeDatabaseTypeName
    \/ RowsClose

SpecRows == InitRowsSpec /\ [][NextRows]_vars

InitExecSpec == BaseOff /\ ExtrasOff("Exec") /\ InitExec

NextExec ==
    \/ ConnExecContext
    \/ ConnQueryContext
    \/ StmtExecContext
    \/ StmtQueryContext

SpecExec == InitExecSpec /\ [][NextExec]_vars

InitAppSpec == BaseOff /\ ExtrasOff("App") /\ InitApp

NextApp ==
    \/ AppStop
    \/ AppRunDone
    \/ AppRunTasks
    \/ \E g \in ReadyCallers : ReadyBegin(g)
    \/ \E g \in ReadyCallers : ReadyCtxDone(g)
    \/ \E g \in ReadyCallers : ReadyReturn(g)

SpecApp == InitAppSpec /\ [][NextApp]_vars

InitMessageSpec == BaseOff /\ ExtrasOff("Message") /\ InitMessage

NextMessage ==
    \/ PutUint
    \/ PutString
    \/ PutBlob
    \/ PutNamedValues
    \/ PutNamedValues32
    \/ PutHeader
    \/ Rewind
    \/ GetString
    \/ GetBlob
    \/ GetUint64

SpecMessage == InitMessageSpec /\ [][NextMessage]_vars

InitRecvSpec == BaseOff /\ ExtrasOff("recv") /\ InitRecv

InitBackoffSpec == BaseOff /\ ExtrasOff("Backoff") /\ InitBackoff

NextBackoff == BackoffStrategy

SpecBackoff == InitBackoffSpec /\ [][NextBackoff]_vars

NextRecv ==
    \/ RecvHeaderOf
    \/ RecvBodyBegin
    \/ GrowBuffer
    \/ RecvBodyPeek
    \/ RecvPeekDone
    \/ RecvFillBegin
    \/ ConnRead
    \/ RecvFillNoProgress

\* The goroutine in recvBody goes on running.
SpecRecvFair ==
    InitRecvSpec /\ [][NextRecv]_vars /\ WF_vars(RecvBodyBegin \/ GrowBuffer)

\* The goroutine in recv goes on running and every conn.Read returns.
SpecRecvStreamFair ==
    /\ InitRecvSpec /\ [][NextRecv]_vars
    /\ WF_vars(RecvBodyBegin \/ GrowBuffer \/ RecvBodyPeek)
    /\ WF_vars(RecvPeekDone \/ RecvFillBegin \/ ConnRead \/ RecvFillNoProgress)

(***************************************************************************)
(* Properties of the Protocol.                                             *)
(***************************************************************************)
\* The goroutine is inside Call, between p.mu.Lock() and p.mu.Unlock().
InCall(g) ==
    /\ op[g] = "Call"
    /\ pc[g] \in {"sendHeader", "sendBody", "recvHeader", "recvBody", "defer",
                  "unlock"}

\* The goroutine is in the send or the receive of a Call.
InCallIO(g) ==
    /\ op[g] = "Call"
    /\ pc[g] \in {"sendHeader", "sendBody", "recvHeader", "recvBody"}

\* C1: concurrent Calls on one Protocol exclude each other over the whole
\* send and receive: at most one goroutine is between Lock and Unlock of Call,
\* it holds the mutex, nothing is written after the first write of the Call in
\* progress but its own bytes, and the writes of two requests never interleave
\* on the stream.
C1_CallsSerialized ==
    /\ \A g1, g2 \in G : InCall(g1) /\ InCall(g2) => g1 = g2
    /\ \A g \in G : InCall(g) => mu = g
    /\ \A g \in G : \A i, j \in DOMAIN wire :
         InCall(g) /\ wire[i].id = req[g].id /\ i < j
           => wire[j].id = req[g].id
    /\ \A i, j, k \in DOMAIN wire :
         i < j /\ j < k /\ wire[i].id = wire[k].id => wire[j].id = wire[i].id

\* C1 witness: one goroutine is receiving the response of its Call while
\* another goroutine's Call waits for the mutex.
C1_Witness ==
    \E g1, g2 \in G :
      /\ g1 # g2
      /\ op[g1] = "Call" /\ pc[g1] = "recvHeader" /\ Len(wire) = 2
      /\ op[g2] = "Call" /\ pc[g2] = "lock"

\* C2: a Call that returns a *net.OpError leaves it in p.netErr; once p.netErr
\* is set it never changes; no Call is in its send or receive while it is set;
\* and a Call that takes the mutex while it is set returns that error, with no
\* write, no read and no deadline set or reset on the stream.
C2_StickyNetErr ==
    /\ [](\A g \in G : InCallIO(g) => netErr = "nil")
    /\ [][/\ netErr # "nil" => netErr' = netErr
          /\ \A g \in G :
               /\ op[g] = "Call" /\ pc[g] = "defer" /\ pc'[g] = "idle"
               /\ IsOpError(err[g])
               => netErr' = err[g]
          /\ \A g \in G :
               /\ op[g] = "Call" /\ netErr # "nil"
               /\ pc[g] \in {"lock", "unlock"} /\ pc'[g] # pc[g]
               => /\ pc'[g] \in {"unlock", "idle"}
                  /\ pc'[g] = "unlock" => err'[g] = netErr
                  /\ wire' = wire /\ inbox' = inbox
                  /\ connDeadline' = connDeadline]_vars

\* C2 witness: a Call is returning the cached network error of an earlier Call.
C2_Witness ==
    \E g \in G :
      /\ op[g] = "Call" /\ pc[g] = "unlock"
      /\ netErr # "nil" /\ err[g] = netErr
      /\ Len(wire) > 0

\* Nothing is in flight: the server has consumed every request, is streaming
\* no result set, and every response it sent has been read.
Boundary ==
    /\ inbox = <<>>
    /\ srvQuery.left = 0
    /\ srvPos = Len(wire)

\* C9: when the Rows a goroutine holds are those of its own query (its
\* responses were read in frame), Interrupt writes one request, and when it
\* returns nil nothing of the interrupted query is pending: the stream is at a
\* message boundary, and the response the next Call reads is the reply to that
\* Call's own request.
C9_InterruptDrains ==
    /\ \A g \in G :
         op[g] = "Interrupt" /\ req[g].id # 0
           => Cardinality({i \in DOMAIN wire : wire[i].id = req[g].id}) <= 2
    /\ \A g \in G :
         op[g] = "Interrupt" /\ pc[g] = "defer" /\ err[g] = "nil" /\ rows[g].own
           => Boundary
    /\ \A g \in callers : drained /\ pc[g] = "idle" => Boundary
    /\ \A g \in G :
         drained /\ op[g] = "Call" /\ pc[g] = "defer" /\ err[g] = "nil"
           => OwnClean(resp[g], req[g].id)

\* C9 witness: after an Interrupt that discarded a part of the result set and
\* returned nil, the next Call has read a whole response.
C9_Witness ==
    \E g \in G :
      /\ drained /\ op[g] = "Call" /\ pc[g] = "defer" /\ err[g] = "nil"
      /\ \E i \in DOMAIN wire : wire[i].kind = "interrupt"
      /\ resp[g].mtype = ResponseResult

\* C10: a Call whose deadline passes between the header and the body of its
\* response leaves the Protocol with p.netErr set, and no Call ever reads a
\* byte of a response abandoned that way.
C10_TimeoutBreaksConn ==
    /\ abandoned # {} => netErr # "nil"
    /\ \A g \in G :
         op[g] = "Call" => resp[g].hid \notin abandoned
                           /\ resp[g].bid \notin abandoned

\* C10 witness: the body of an abandoned response is still unread on the
\* stream while a later Call returns the cached error.
C10_Witness ==
    \E g \in G :
      /\ op[g] = "Call" /\ pc[g] = "unlock"
      /\ inbox # <<>> /\ Head(inbox).part = "body"
      /\ Head(inbox).id \in abandoned

(***************************************************************************)
(* Properties of the Connector.                                            *)
(***************************************************************************)
\* Connect returned no Protocol and ErrNoAvailableLeader.
NoLeader == [protocol |-> NilConn, err |-> "ErrNoAvailableLeader"]

\* The connection of the last dial was confirmed as the leader's: the answer
\* to the leader request named the dialed address and the client request was
\* answered with a Welcome.
Confirmed(c) ==
    /\ c # NilConn
    /\ c = cinfo.id
    /\ cinfo.answered
    /\ cinfo.leader = cinfo.addr
    /\ cinfo.welcome

\* C3: when Connect has returned, every connection it dialed is closed, but
\* the one of the Protocol it returned.
C3_DialedClosedOrReturned ==
    cpc = "done" => open \subseteq {result.protocol} \ {NilConn}

\* C4: a Protocol leaves connectAttemptOne, connectAttemptAll and Connect only
\* for a connection whose peer answered the leader request with the address
\* that was dialed and the client request with a Welcome; Connect returns it
\* open and with a nil error.
C4_ReturnsOnlyConfirmed ==
    /\ one.protocol # NilConn => Confirmed(one.protocol)
    /\ protocol # NilConn => Confirmed(protocol)
    /\ result.protocol # NilConn
         => /\ Confirmed(result.protocol)
            /\ result.protocol \in open
            /\ result.err = "nil"

\* C4 witness: Connect returned the Protocol of a confirmed connection, after
\* a connection in the same pass that named no leader was dropped.
C4_Witness ==
    /\ cpc = "done"
    /\ result.protocol # NilConn
    /\ result.protocol[2] > 1
    /\ cinfo.hop = "first"

\* C5: within a pass, the roles of the candidates dialed so far are in
\* non-decreasing order, and the candidates are those of the store.
C5_RoleOrder ==
    /\ \A i, j \in DOMAIN probed : i < j => probed[i] <= probed[j]
    /\ cpc \in {"dial", "handshake", "leader", "client", "after"}
         => /\ Len(servers) = Len(store)
            /\ \A i \in DOMAIN store : \E j \in DOMAIN servers : servers[j] = store[i]

\* C5 witness: the store lists a Spare, a Voter and a StandBy, and the pass
\* has dialed the Voter, the StandBy and the Spare, in this order.
C5_Witness ==
    /\ Len(store) = 3
    /\ store[1].role = Spare /\ store[2].role = Voter /\ store[3].role = StandBy
    /\ probed = <<Voter, StandBy, Spare>>
    /\ hop = "first" /\ target = 1

\* C6: when the connection that answered with another address B was followed
\* by a connection to B that confirmed to be the leader's, Connect returns the
\* Protocol of the connection to B.
C6_RedirectTargetReturned ==
    cpc = "done" /\ cinfo.hop = "redirect" /\ cinfo.welcome
      => result = [protocol |-> cinfo.id, err |-> "nil"]

Stopped ==
    /\ cpc \in {"retry", "check", "done"}
    /\ attempt > 0
    /\ retryErr = "nil"
    /\ protocol = NilConn

\* C8: a pass starts only from the select and only if the context is not done;
\* if it is done there, the action returns with no NodeStore.Get and no Dial,
\* no pass is started afterwards, and Connect returns ErrNoAvailableLeader.
C8_CancelIsTerminal ==
    [][/\ passes' # passes => cpc = "select" /\ ~ctxDone
       /\ cpc' = "get" /\ cpc # "get" => cpc = "select" /\ ~ctxDone
       /\ cpc = "select" /\ ctxDone /\ cpc' # cpc => Stopped'
       /\ Stopped
            => /\ passes' = passes /\ open' = open /\ cinfo' = cinfo
               /\ probed' = probed
               /\ cpc' # cpc => Stopped' /\ cpc' \in {"check", "done"}
               /\ cpc' = "done" => result' = NoLeader]_vars

\* C8 witness: the context was done when the second pass was about to start,
\* and Connect returned ErrNoAvailableLeader after one pass.
C8_Witness ==
    /\ cpc = "done"
    /\ Stopped
    /\ passes = 1 /\ attempt = 2
    /\ result = NoLeader

(***************************************************************************)
(* Further properties of the Protocol.                                     *)
(***************************************************************************)
\* C11: a Call that returns an I/O error of any kind leaves p.netErr set, so
\* that the next Call fails without I/O.
C11_EveryIOErrorCached ==
    [][\A g \in G :
         /\ op[g] = "Call" /\ pc[g] = "defer" /\ pc'[g] = "idle"
         /\ err[g] # "nil"
         => netErr' # "nil"]_vars

\* C12: a Call or Interrupt that waits for p.mu when the deadline of its
\* context passes stops waiting, whatever the goroutine holding p.mu does.
C12_LockWaitHonoursDeadline ==
    \A g \in G : (pc[g] = "lock" /\ g \in expired) ~> (pc[g] # "lock")

\* C13: Close can run whoever holds p.mu; once the stream is closed, the next
\* write or read of a Call in flight fails with the error of a closed stream;
\* and that Call returns.
C13_CloseUnblocksCall ==
    /\ [](~connClosed => ENABLED Close)
    /\ [][\A g \in G :
            connClosed /\ InCallIO(g) /\ pc'[g] # pc[g]
              => pc'[g] = "defer" /\ err'[g] = "OpClosed"]_vars
    /\ \A g \in G : (connClosed /\ InCall(g)) ~> (pc[g] = "idle")

\* C13 witness: the stream was closed while a Call held the mutex and waited
\* for a response that had not come.
C13_Witness ==
    \E g \in G :
      /\ op[g] = "Call" /\ pc[g] = "recvHeader" /\ mu = g
      /\ inbox = <<>> /\ peer = "up"
      /\ connClosed

(***************************************************************************)
(* Further properties of the Connector.                                    *)
(***************************************************************************)
\* C14: a call of connectAttemptOne to a reported leader only follows a call
\* for a server of the store; when it returns no Protocol, whatever leader it
\* names, connectAttemptAll goes on with the next server of the store, or
\* returns if there is none.
C14_OneRedirectHop ==
    [][/\ hop' = "redirect" /\ cpc' = "dial" /\ cpc = "after"
            => hop \in {"first", "legacy"} /\ idx' = idx
       /\ cpc = "after" /\ hop = "redirect" /\ one.protocol = NilConn
          /\ cpc' # cpc
            => \/ /\ idx < Len(servers)
                  /\ cpc' = "dial" /\ hop' = "first" /\ idx' = idx + 1
                  /\ target' = servers[idx + 1].addr
               \/ /\ idx = Len(servers)
                  /\ cpc' = "retry" /\ retryErr' = "err"]_vars

\* C14 witness: the reported leader B, dialed for the first of several
\* servers, answered with a third address C and its connection is closed.
C14_Witness ==
    /\ cpc = "after" /\ hop = "redirect"
    /\ one.err = "nil" /\ one.protocol = NilConn
    /\ one.leader # NoAddress /\ one.leader # target
    /\ idx < Len(servers)
    /\ open = {}

\* The pass goes on with the next server of the store, or ends with an error
\* when there is none.
NextCandidate ==
    \/ /\ idx < Len(servers)
       /\ cpc' = "dial" /\ hop' = "first" /\ idx' = idx + 1
       /\ target' = servers[idx + 1].addr /\ version' = VersionOne
    \/ /\ idx = Len(servers)
       /\ cpc' = "retry" /\ retryErr' = "err"

\* C15: after the version-1 call of connectAttemptOne for a server, the same
\* address is dialed with the legacy version exactly when the leader Call
\* failed with a network error that is not a timeout or with EOF, and then the
\* first connection is closed; no other call is followed by a legacy one; and
\* when the legacy call fails, by a bad protocol too, the pass goes on with
\* the next server.
C15_LegacyFallback ==
    [][/\ cpc = "after" /\ hop = "first" /\ cpc' # cpc
            => /\ (cpc' = "dial" /\ hop' = "legacy")
                    <=> cinfo.lerr \in {"OpReset", "OpClosed", "EOF"}
               /\ hop' = "legacy"
                    => /\ version' = VersionLegacy
                       /\ target' = target /\ idx' = idx
                       /\ open = {} /\ open' = {}
       /\ hop' = "legacy" /\ hop # "legacy" => cpc = "after" /\ hop = "first"
       /\ cpc = "after" /\ hop = "legacy" /\ one.err # "nil" /\ cpc' # cpc
            => NextCandidate]_vars

\* C15 witness: the legacy call for a server whose version-1 connection was
\* closed on an EOF has failed with a bad protocol again, and there is a next
\* server.
C15_Witness ==
    /\ cpc = "after" /\ hop = "legacy" /\ version = VersionLegacy
    /\ one.err = "errBadProtocol" /\ cinfo.lerr = "EOF"
    /\ idx < Len(servers)
    /\ open = {}

\* C16: when a server of the store that comes after others which gave no
\* leader confirms to be the leader, Connect returns the Protocol of the
\* connection to it.
C16_LaterCandidateReturned ==
    cpc = "done" /\ cinfo.welcome /\ cinfo.hop = "first" /\ cinfo.id[2] > 1
      => result = [protocol |-> cinfo.id, err |-> "nil"]

\* The part of C16 about the pass: an error of connectAttemptOne, other than
\* the bad protocol that starts the legacy call, is followed by the next
\* server of the store.
FailureContinues ==
    [][(/\ cpc = "after" /\ one.err # "nil" /\ cpc' # cpc
        /\ ~(hop = "first" /\ one.err = "errBadProtocol"))
         => NextCandidate]_vars

\* C17: with RetryLimit = 0 a failed pass is always followed by the backoff
\* sleep and another turn of the retry loop, for every number of passes up to
\* MaxAttempts; Connect returns ErrNoAvailableLeader only when the context is
\* done; and while the context is never done, Connect either returns a
\* Protocol or the number of passes reaches MaxAttempts.
C17_UnlimitedPasses ==
    /\ [][(retryLimit = 0 /\ cpc = "retry" /\ retryErr = "err" /\ cpc' # cpc)
            => cpc' = "backoff"]_vars
    /\ [][(retryLimit = 0 /\ cpc = "check" /\ cpc' = "done"
           /\ result'.err # "nil")
            => ctxDone /\ result'.err = "ErrNoAvailableLeader"]_vars
    /\ (retryLimit = 0 /\ []~ctxDone)
         => <>(\/ cpc = "done" /\ result.err = "nil"
                                /\ result.protocol = cinfo.id /\ cinfo.welcome
               \/ attempt = MaxAttempts)

\* C17 witness: with RetryLimit = 0, Connect returned the Protocol of a leader
\* found in pass number MaxAttempts, after MaxAttempts - 1 failed passes.
C17_Witness ==
    /\ retryLimit = 0 /\ passes = MaxAttempts /\ attempt = MaxAttempts
    /\ cpc = "done" /\ result.err = "nil" /\ result.protocol = cinfo.id

\* C18: when the context is done while Connect sleeps between two passes,
\* Connect can go on at once: the sleep is over whatever is left of the delay.
C18_CancelEndsBackoff ==
    cpc = "backoff" /\ ctxDone => ENABLED BackoffDone

\* A Get of goroutine g has returned.
Returned(g) == spc[g] = "idle" /\ got[g] # NoList

\* C19 as stated: every Get that has returned gave the list of one Set (or the
\* initial list), which is the last Set that had returned when the Get was
\* called, or a later one.
C19_GetSeesOneSet ==
    \A g \in SG :
        Returned(g) =>
            \E w \in sfloor[g].any..sceil[g] : got[g] = sets[w].list

\* C19 amended: every Get that has returned gave the list of one Set that
\* returned without error (or the initial list), which is the last such Set
\* that had returned when the Get was called, or a later one.
C19_GetSeesOneSuccessfulSet ==
    \A g \in SG :
        Returned(g) =>
            \E w \in sfloor[g].ok..sceil[g] :
                sets[w].ok /\ got[g] = sets[w].list

\* C19 witness: a Get called after one Set had returned and before a Set of
\* a different list returned has returned that later list.
C19_Witness ==
    \E g \in SG :
        /\ Returned(g) /\ Len(sets) = 3 /\ sfloor[g].ok = 2 /\ sceil[g] = 3
        /\ sets[2].ok /\ sets[3].ok /\ sets[2].list # sets[3].list
        /\ got[g] = sets[3].list /\ Len(got[g]) = MaxListLen
        /\ sdone.ok = 3

\* The same addresses, each once.
SameAddresses(a, b) == Len(a) = Len(b) /\ Range(a) = Range(b)

\* C20: a Set that returns an error leaves the table with the rows of the
\* last Set that returned nil; with no transaction in progress the table has
\* those rows; and a Get that returns without error, in particular one that
\* follows a failed Set, returns exactly the addresses of that last Set.
C20_FailedSetNotPersisted ==
    /\ [](conn = 0 => table = lastOk)
    /\ [][\A g \in SG :
            /\ (dpc[g] \in {"sbegin", "delete", "prepare", "insert"}
                /\ dpc'[g] = "idle" /\ derr'[g] # "nil")
                 => table' = table /\ lastOk' = lastOk /\ table' = lastOk'
            /\ (dpc[g] = "query" /\ dpc'[g] = "idle" /\ dgot'[g].err = "nil")
                 => SameAddresses(dgot'[g].servers, lastOk)]_vars

\* C20 witness: a Get that followed a Set failing on a duplicate address, with
\* one row already inserted, has returned the two addresses of the Set before.
C20_Witness ==
    \E g \in SG :
        /\ dpc[g] = "idle" /\ dgot[g].err = "nil" /\ dgot[g].prev = "UNIQUE"
        /\ Len(lastOk) = 2 /\ dgot[g].servers = lastOk
        /\ table = lastOk

\* The server failure driverError finds in the chain of the error it is given.
Failure == As(callErr, {"ErrRequest"})

\* driverError returned for an error that has a server failure in its chain.
FailureMapped == drvErr # NotReturned /\ Failure.kind = "ErrRequest"

\* C21: driverError returns driver.ErrBadConn for a server failure with code
\* 10250 (not leader), 10506 (leadership lost), 8202 or 8458 (their legacy
\* values) or 12 (not found).
C21_LeadershipCodesBadConn ==
    FailureMapped /\ Failure.code \in {10250, 10506, 8202, 8458, 12}
      => drvErr = ErrBadConn

\* C21 witness: driverError returned for a failure with code 10506 and no
\* other error in the chain.
C21_Witness ==
    /\ FailureMapped /\ Len(callErr) = 1 /\ Failure.code = 10506
    /\ drvErr = ErrBadConn

\* C22: driverError returns driver.ErrBadConn for a server failure with
\* code 5 (busy) or 517 (busy snapshot).
C22_BusyCodesBadConn ==
    FailureMapped /\ Failure.code \in {5, 517} => drvErr = ErrBadConn

\* The chain has no error for which driverError returns driver.ErrBadConn
\* before it looks at the server failure.
NoNetworkError ==
    \A i \in 1..Len(callErr) : callErr[i].kind \notin {"Errno", "OpError"}

\* C23: for a server failure with a code that is none of not leader,
\* leadership lost, their legacy values, not found, busy and busy snapshot,
\* and no network error in the chain, driverError returns an Error with that
\* code and description if the code is not 0, and driver.ErrBadConn if it
\* is 0.
C23_OtherCodesTyped ==
    FailureMapped /\ NoNetworkError
    /\ Failure.code \notin {10250, 10506, 8202, 8458, 12, 5, 517}
      => drvErr = IF Failure.code = 0
                    THEN ErrBadConn
                    ELSE [kind |-> "Error", code |-> Failure.code,
                          message |-> Failure.desc]

\* C23 witness: driverError returned the Error 2067, "UNIQUE constraint
\* failed: test.n" for a failure wrapped in another error.
C23_Witness ==
    /\ FailureMapped /\ Len(callErr) = 2 /\ callErr[1].kind = "other"
    /\ drvErr = [kind |-> "Error", code |-> 2067,
                 message |-> "UNIQUE constraint failed: test.n"]

\* The rows of the result set, numbered in the server's order.
ServerOrder(n) == [i \in 1..n |-> i]

\* C24: the rows that Next has delivered are, at every moment, the first rows
\* of the result set in the server's order, each once; when Next returns
\* io.EOF they are all its rows, and More has received one continuation
\* response for each part that ended with the marker of more to come.
C24_EveryRowOnceInOrder ==
    /\ rout = ServerOrder(Len(rout))
    /\ rstate = "EOF" => /\ Len(rout) = Len(rset)
                         /\ rsent = rmarks
                         /\ rserver = <<>>

\* A result set of three rows in three parts has been iterated to io.EOF.
C24_Witness ==
    /\ rstate = "EOF"
    /\ Len(rset) = MaxRows
    /\ rmarks = MaxRowParts - 1
    /\ rsent = MaxRowParts - 1
    /\ Len(rout) = MaxRows

\* C26: once a call of ColumnTypeDatabaseTypeName has returned a type name,
\* every later call returns the same name.
C26_TypeNamesCached ==
    \A i, j \in 1..Len(named) :
        (i < j /\ named[i] \in ColumnTypeNames) => named[j] = named[i]

\* Two calls returned the same name although the buffer holds, after io.EOF
\* and a later receive, a value of another type.
C26_Witness ==
    /\ Len(named) >= 2
    /\ named[1] \in ColumnTypeNames
    /\ named[Len(named)] = named[1]
    /\ rstate = "EOF"
    /\ rbuf.rows # <<>>
    /\ rbuf.rows[1].n = 0
    /\ rbuf.rows[1].type # named[1]
    /\ rpos = 1

\* C25: a call of Exec or Query with at most 255 parameters encodes the V0
\* form with schema 0, one with 256 to 2^32-1 parameters the V1 form with
\* schema 1, and one with more fails with "too many parameters", encodes
\* nothing and sends nothing.
C25_FormByParameterCount ==
    qlast.op # "none" =>
        IF ~Exceeds(qlast.n, [hi |-> 0, lo |-> 255])
          THEN /\ qlast.encoded.schema = 0
               /\ qlast.encoded.values = "putNamedValues"
               /\ qrequest = qlast.encoded
        ELSE IF ~Exceeds(qlast.n, [hi |-> 65535, lo |-> 65535])
          THEN /\ qlast.encoded.schema = 1
               /\ qlast.encoded.values = "putNamedValues32"
               /\ qrequest = qlast.encoded
        ELSE /\ qlast.err = "too many parameters"
             /\ qlast.encoded = NoRequest
             /\ ~qlast.sent

\* A prepared Exec with 256 parameters was sent in the V1 form, after a call
\* with 255 in the V0 form.
C25_Witness ==
    /\ qlast.op = "Stmt.ExecContext"
    /\ qlast.n = [hi |-> 0, lo |-> 256]
    /\ qlast.sent
    /\ Len(qsent) = 2
    /\ qsent[1].schema = 0
    /\ qsent[2] = [type |-> "RequestExec", schema |-> 1,
                   values |-> "putNamedValues32"]

\* C27: a call of App.Ready returns nil only when the startup tasks have
\* succeeded, and returns the error of its context when that context is done
\* and they have not.
C27_ReadyMeansStartupDone ==
    \A g \in ReadyCallers :
        rdpc[g] = "returned" =>
            /\ rdret[g] = "nil" => rdsaw[g].done
            /\ (rdsaw[g].ctx /\ ~rdsaw[g].done) => rdret[g] = "ctx.Err()"

\* ceil(n / 8).
CeilWords(n) == (n + 7) \div 8

\* C28: putString(s) on a Message after reset, then putHeader, Rewind and
\* getString, returns s and leaves the offset at 8 * ceil((len(s) + 1) / 8).
C28_StringRoundTrip ==
    (/\ Len(mops) = 4
     /\ mops[1].op = "putString"
     /\ mops[2].op = "putHeader"
     /\ mops[3].op = "Rewind"
     /\ mops[4].op = "getString")
        => /\ ~mpanic
           /\ mgot = mops[1].arg
           /\ moffset = 8 * CeilWords(Len(mops[1].arg) + 1)

\* A string of eight bytes has made the round trip through a body that held
\* other bytes before, and the offset is two words.
C28_Witness ==
    /\ Len(mops) = 4
    /\ mops[1].op = "putString"
    /\ Len(mops[1].arg) = 8
    /\ mops[4].op = "getString"
    /\ mgot = mops[1].arg
    /\ moffset = 16
    /\ Len(mbytes) = 32
    /\ mbytes[32] = 120

PaddedPuts == {"putString", "putBlob", "putNamedValues", "putNamedValues32"}

DoublingOf(len, old) ==
    /\ len % old = 0
    /\ len \div old \in {2^k : k \in 0..20}

\* C30: when recvBody leaves its loop the buffer holds words * 8 bytes, and
\* if it was too small its length is the first doubling of the old length
\* that does; the loop is left; the length never shrinks and the header
\* fields stay as decoded while the buffer grows.
C30_BufferDoublesUntilSufficient ==
    /\ [](recvpc = "for" /\ resn <= rescap =>
            /\ rescap >= reshdr.words * 8
            /\ DoublingOf(rescap, rescap0)
            /\ rescap # rescap0 => rescap \div 2 < reshdr.words * 8)
    /\ [][/\ rescap' >= rescap
          /\ rescap' # rescap => reshdr' = reshdr]_vars
    /\ (recvpc = "for" ~> (recvpc = "for" /\ resn <= rescap))

\* A header of 65 words was received into a buffer of 16 bytes, which a
\* receive before had grown from 8, and the buffer has now 1024.
C30_Witness ==
    /\ recvpc = "idle"
    /\ recvs = 0
    /\ reshdr.words = 65
    /\ rescap0 = 16
    /\ rescap = 1024

(***************************************************************************)
(* Properties of the Protocol: the writes and the reads of an operation.   *)
(***************************************************************************)
\* The parts that the writes of the request with an id put on the stream.
PartsWritten(id) ==
    LET w == SelectSeq(wire, LAMBDA x : x.id = id)
    IN  [i \in 1..Len(w) |-> w[i].part]

\* C31: the writes of a request are its header and then its body, each at
\* most once; a Call reads only when both were written in full; and a Call
\* whose write failed or was short has read nothing and is returning.
C31_HeaderThenBodyThenRead ==
    /\ \A id \in 1..(nextId - 1) :
         PartsWritten(id) \in {<<>>, <<"hdr">>, <<"hdr", "body">>,
                               <<"short">>, <<"hdr", "short">>}
    /\ \A g \in G :
         (op[g] = "Call" /\ req[g].id # 0) =>
             /\ (pc[g] \in {"recvHeader", "recvBody"} \/ resp[g] # NoResp)
                  => PartsWritten(req[g].id) = <<"hdr", "body">>
             /\ (pc[g] = "defer" /\ PartsWritten(req[g].id) # <<"hdr", "body">>)
                  => err[g] # "nil" /\ resp[g] = NoResp

\* A Call wrote its header and then too few bytes of its body: it is
\* returning io.ErrShortWrite and has read nothing.
C31_Witness ==
    \E g \in G :
        /\ op[g] = "Call"
        /\ pc[g] = "defer"
        /\ err[g] = "ErrShortWrite"
        /\ PartsWritten(req[g].id) = <<"hdr", "short">>
        /\ resp[g] = NoResp

\* The goroutine is in recv: it reads, or waits to read, from the stream.
Reading(g) == pc[g] \in {"recvHeader", "recvBody"}

\* C32: at most one goroutine reads from the stream at any time, More and
\* Interrupt included, and a More reads a response of its own query only.
C32_OneReaderAtATime ==
    /\ \A g, h \in G : (Reading(g) /\ Reading(h)) => g = h
    /\ \A g \in G :
         (op[g] = "More" /\ resp[g].hpart = "hdr") => resp[g].hid = req[g].id

\* The goroutine is writing to or reading from the stream.
DoingIO(g) == pc[g] \in {"sendHeader", "sendBody", "recvHeader", "recvBody"}

\* The step takes goroutine g from outside the I/O of send and recv into it.
EntersIO(g) == ~DoingIO(g) /\ DoingIO(g)'

\* C33: More and Interrupt follow the sticky-failure contract of Call: neither
\* starts its I/O once a network error is recorded, and a More or an Interrupt
\* that returns a network error leaves one recorded.
C33_StickyForMoreAndInterrupt ==
    [][\A g \in G :
         /\ (op'[g] \in {"More", "Interrupt"} /\ EntersIO(g)) => ~HasNetErr
         /\ (/\ op[g] \in {"More", "Interrupt"}
             /\ pc[g] = "defer" /\ pc'[g] = "idle"
             /\ err[g] # "nil" /\ IsOpError(err[g])) => netErr' # "nil"]_vars

(***************************************************************************)
(* Properties of the Protocol: the deadline of the stream.                 *)
(***************************************************************************)
\* The step is one of goroutine g's inside a Call.
CallStep(g) == pc'[g] # pc[g] /\ (op[g] = "Call" \/ op'[g] = "Call")

\* C34: a Call whose context has a deadline has it set on the stream before
\* the send, and every return resets the stream to no deadline.
C34_DeadlineSet ==
    \A g \in G :
        (op[g] = "Call" /\ req[g].dl /\ (DoingIO(g) \/ pc[g] = "defer"))
            => connDeadline \in {"armed", "expired"}

\* C34: the return of a Call whose context has a deadline resets the stream to
\* no deadline; a Call whose context has none, or that returns the recorded
\* network error, leaves the stream's deadline as it is.
C34_DeadlineResetOrUntouched ==
    /\ [](C34_DeadlineSet)
    /\ [][\A g \in G :
            /\ (CallStep(g) /\ req[g].dl /\ pc[g] = "defer")
                   => connDeadline' = "none"
            /\ (CallStep(g) /\ ~req[g].dl /\ ~req'[g].dl)
                   => connDeadline' = connDeadline
            /\ (CallStep(g) /\ pc[g] = "lock" /\ HasNetErr)
                   => (pc'[g] = "unlock" /\ connDeadline' = connDeadline)
            /\ (CallStep(g) /\ pc[g] = "unlock")
                   => connDeadline' = connDeadline]_vars

\* A query Call whose context had a deadline has returned with rows pending
\* and the stream is back to no deadline.
C34_Witness ==
    \E g \in G :
        /\ pc[g] = "idle" /\ rows[g].id # 0 /\ rows[g].dl
        /\ mu = 0 /\ connDeadline = "none"

(***************************************************************************)
(* Properties of the Protocol: the reads of a receive.                     *)
(***************************************************************************)
\* C35: a recvFill makes at most messageMaxConsecutiveEmptyReads reads that
\* return nothing and the receive then returns io.ErrNoProgress, which it
\* returns in no other case; every recvPeek returns.
C35_EmptyReadsBounded ==
    /\ [](/\ fempty <= messageMaxConsecutiveEmptyReads
          /\ recvpc = "fill" => fi + fempty = messageMaxConsecutiveEmptyReads
          /\ (recvpc = "idle" /\ fempty = messageMaxConsecutiveEmptyReads)
                 => recverr = "ErrNoProgress"
          /\ recverr = "ErrNoProgress"
                 => (fempty = messageMaxConsecutiveEmptyReads /\ foffset < resn))
    /\ (recvpc \in {"peek", "fill"} ~> recvpc = "idle")

\* A receive read a part of the body and then the maximum of empty reads, and
\* returned io.ErrNoProgress with the body incomplete.
C35_Witness ==
    /\ recvpc = "idle"
    /\ recverr = "ErrNoProgress"
    /\ fempty = messageMaxConsecutiveEmptyReads
    /\ foffset > 0 /\ foffset < resn

(***************************************************************************)
(* Properties of the backoff strategy.                                     *)
(***************************************************************************)
Min(a, b) == IF a < b THEN a ELSE b

\* C36: the strategy does not sleep before the first pass, and before retry
\* k it sleeps the smaller of factor * 2^k and the cap, which is more than
\* nothing and at most the cap.
C36_SleepIsCappedExponential ==
    /\ bkslept.attempt = 0 => bkslept.slept = 0
    /\ bkslept.attempt >= 1 =>
         /\ bkslept.slept = Min(bkfactor * 2 ^ bkslept.attempt, bkcap)
         /\ bkslept.slept > 0
         /\ bkslept.slept <= bkcap

(***************************************************************************)
(* Properties of the Connector: what Connect returns and what it leaves.   *)
(***************************************************************************)
\* C37: Connect returns a Protocol and no error, or no Protocol and
\* ErrNoAvailableLeader: never the error of a pass (that of NodeStore.Get or
\* of a candidate), and never the panic for a missing Protocol.
C37_TwoOutcomes ==
    /\ cpc = "done" =>
         \/ result.protocol # NilConn /\ result.err = "nil"
         \/ result.protocol = NilConn /\ result.err = "ErrNoAvailableLeader"
    /\ (cpc = "done" /\ retryErr # "nil") =>
         result = [protocol |-> NilConn, err |-> "ErrNoAvailableLeader"]

\* Connect returned after the action of the retry loop found the context done
\* and returned nil with no Protocol.
C37_Witness ==
    /\ cpc = "done"
    /\ ctxDone /\ retryErr = "nil" /\ protocol = NilConn
    /\ passes > 0
    /\ result = [protocol |-> NilConn, err |-> "ErrNoAvailableLeader"]

\* C38: no step of Connect changes the list of the NodeStore or its order.
C38_StoreUnchanged == [][store' = store]_vars

\* A second pass of Connect is at a candidate, with the servers sorted into
\* an order that is not the order of the store.
C38_Witness ==
    /\ passes >= 2
    /\ cpc = "dial"
    /\ servers # <<>> /\ servers # store

C40_CloseAgainNoPanic == closeCh # "panic"

====
